---------------------------- MODULE Spec2Model ----------------------------
(***************************************************************************)
(* Document intake pipeline (backend/app): the /process handler streams    *)
(* progress, result and complete events while process_single_file takes    *)
(* every uploaded file through filename check, read, validate_pdf,         *)
(* extract_images, OCR (batch_process), the content check, the two         *)
(* language-model calls, DocumentData construction and append_to_csv.      *)
(*                                                                         *)
(* Text (file names, file bytes, OCR text, field values) is a sequence of  *)
(* one-character strings, so that len(), strip(), lower(), startswith()   *)
(* and endswith() are computed on the characters.                          *)
(***************************************************************************)
EXTENDS Integers, Sequences, FiniteSets, TLC

(***************************************************************************)
(* Bounds of the model.                                                    *)
(***************************************************************************)
\* Largest number of files in one request.
MaxFiles == 2
\* settings.max_file_size, scaled down from its default of 10485760 bytes.
MaxFileSize == 4

(***************************************************************************)
(* Python's str methods, on sequences of characters.                       *)
(***************************************************************************)
Whitespace == {" ", "\n", "\t"}

RECURSIVE LStrip(_)
LStrip(s) ==
    IF s # <<>> /\ Head(s) \in Whitespace THEN LStrip(Tail(s)) ELSE s

RECURSIVE RStrip(_)
RStrip(s) ==
    IF s # <<>> /\ s[Len(s)] \in Whitespace
    THEN RStrip(SubSeq(s, 1, Len(s) - 1))
    ELSE s

\* str.strip()
Strip(s) == RStrip(LStrip(s))

\* str.lower(), on the letters the model's file and provider names use.
LowerChar(c) ==
    CASE c = "A" -> "a"
      [] c = "B" -> "b"
      [] c = "D" -> "d"
      [] c = "F" -> "f"
      [] c = "G" -> "g"
      [] c = "P" -> "p"
      [] c = "T" -> "t"
      [] c = "X" -> "x"
      [] OTHER -> c

Lower(s) == [i \in 1..Len(s) |-> LowerChar(s[i])]

\* str.startswith(prefix) / bytes.startswith(prefix)
StartsWith(s, prefix) ==
    /\ Len(s) >= Len(prefix)
    /\ SubSeq(s, 1, Len(prefix)) = prefix

\* str.endswith(suffix)
EndsWith(s, suffix) ==
    /\ Len(s) >= Len(suffix)
    /\ SubSeq(s, Len(s) - Len(suffix) + 1, Len(s)) = suffix

\* "sep".join(parts)
RECURSIVE Join(_, _)
Join(sep, parts) ==
    IF parts = <<>> THEN <<>>
    ELSE IF Len(parts) = 1 THEN parts[1]
    ELSE parts[1] \o sep \o Join(sep, Tail(parts))

\* str(n) for a natural number n.
DigitChar(d) ==
    CASE d = 0 -> "0" [] d = 1 -> "1" [] d = 2 -> "2" [] d = 3 -> "3"
      [] d = 4 -> "4" [] d = 5 -> "5" [] d = 6 -> "6" [] d = 7 -> "7"
      [] d = 8 -> "8" [] OTHER -> "9"

RECURSIVE IntToStr(_)
IntToStr(n) ==
    IF n < 10 THEN <<DigitChar(n)>>
    ELSE IntToStr(n \div 10) \o <<DigitChar(n % 10)>>

\* Python's None, among values that are otherwise character sequences.
None == <<"None">>

(***************************************************************************)
(* PDFProcessor.validate_pdf                                               *)
(***************************************************************************)
PdfMagic == <<"%", "P", "D", "F">>
PdfSuffix == <<".", "p", "d", "f">>

\* The two rejection reasons and the empty reason of an accepted file.  The
\* "too large" message also carries the two sizes in MB.
FileTooLarge == "File too large"
InvalidFormat == "Invalid PDF file format"
NoReason == ""

\* Faulty variants of validate_pdf, for the sensitivity of C8 and C9: the
\* size limit taken one byte too high, and the limit itself refused.
validate_pdf_OneByteOver(pdf_bytes, max_size) ==
    IF Len(pdf_bytes) > max_size + 1 THEN <<FALSE, FileTooLarge>>
    ELSE IF ~StartsWith(pdf_bytes, PdfMagic) THEN <<FALSE, InvalidFormat>>
    ELSE <<TRUE, NoReason>>

validate_pdf_LimitRefused(pdf_bytes, max_size) ==
    IF Len(pdf_bytes) >= max_size THEN <<FALSE, FileTooLarge>>
    ELSE IF ~StartsWith(pdf_bytes, PdfMagic) THEN <<FALSE, InvalidFormat>>
    ELSE <<TRUE, NoReason>>

validate_pdf(pdf_bytes, max_size) ==
    IF Len(pdf_bytes) > max_size THEN <<FALSE, FileTooLarge>>
    ELSE IF ~StartsWith(pdf_bytes, PdfMagic) THEN <<FALSE, InvalidFormat>>
    ELSE <<TRUE, NoReason>>

(***************************************************************************)
(* PDFProcessor.extract_images and the OCR service.                        *)
(*                                                                         *)
(* A page image is named by what is on the page: the text an OCR backend   *)
(* detects on it before stripping, or "bad" for an image on which the      *)
(* backend call raises; "cloud_down" is a page the local engine reads      *)
(* while the request to the cloud backend fails.                           *)
(***************************************************************************)
PageLong == "long"
PageShort == "short"
PageBlank == "blank"
PageBad == "bad"
PageCloudDown == "cloud_down"
PageImages == {PageLong, PageShort, PageBlank, PageBad}

\* What the backend detects on a page, before .strip().
DetectedText(image) ==
    CASE image = PageLong ->
           <<" ", "D", "e", "a", "r", " ", "f", "a", "m", "i", "l", "y", ",", "\n">>
      [] image = PageShort -> <<" ", "H", "i", "\n">>
      [] image = PageCloudDown -> <<" ", "N", "o", "t", "e", "\n">>
      [] OTHER -> <<" ", "\n">>

\* OCRService.__init__: the cloud backend is kept only if it was asked for
\* and its client could be built; otherwise the provider is the local engine.
\* Nothing raises: both initialisation blocks catch every exception.
OCRServiceInit(provider, cloud_ok) ==
    IF Lower(provider) = <<"g", "o", "o", "g", "l", "e">> /\ cloud_ok
    THEN [provider |-> "google", google_client |-> TRUE]
    ELSE [provider |-> "tesseract", google_client |-> FALSE]

\* _extract_with_google / _extract_with_tesseract: the stripped text, or an
\* exception ("Text extraction failed: ...").
extract_with_google(image) ==
    IF image \in {PageBad, PageCloudDown} THEN [ok |-> FALSE, text |-> <<>>]
    ELSE [ok |-> TRUE, text |-> Strip(DetectedText(image))]

extract_with_tesseract(image) ==
    IF image = PageBad THEN [ok |-> FALSE, text |-> <<>>]
    ELSE [ok |-> TRUE, text |-> Strip(DetectedText(image))]

\* A faulty variant of extract_handwriting, for the sensitivity of C28: a
\* failing cloud call falls back to the local engine.
extract_handwriting_Fallback(service, image) ==
    IF service.provider = "google" /\ service.google_client
    THEN IF extract_with_google(image).ok THEN extract_with_google(image)
         ELSE extract_with_tesseract(image)
    ELSE extract_with_tesseract(image)

extract_handwriting(service, image) ==
    IF service.provider = "google" /\ service.google_client
    THEN extract_with_google(image)
    ELSE extract_with_tesseract(image)

PageMarker(n) ==
    <<"-", "-", "-", " ", "P", "A", "G", "E", " ">> \o IntToStr(n)
        \o <<" ", "-", "-", "-">>

ErrorPlaceholder ==
    <<"[", "E", "R", "R", "O", "R", ":", " ", "C", "o", "u", "l", "d", " ",
      "n", "o", "t", " ", "e", "x", "t", "r", "a", "c", "t", " ", "t", "e",
      "x", "t", "]">>

\* A faulty variant of PageSections, for the sensitivity of C12: the
\* exception of a page ends the loop.
RECURSIVE PageSections_StopAtError(_, _, _)
PageSections_StopAtError(service, images, idx) ==
    IF idx > Len(images) THEN <<>>
    ELSE LET r == extract_handwriting(service, images[idx])
             rest == PageSections_StopAtError(service, images, idx + 1)
         IN  IF ~r.ok
             THEN <<>>
             ELSE IF Strip(r.text) # <<>>
             THEN <<PageMarker(idx) \o <<"\n">> \o r.text>> \o rest
             ELSE rest

\* The all_text list of batch_process after pages idx..len(images).
RECURSIVE PageSections(_, _, _)
PageSections(service, images, idx) ==
    IF idx > Len(images) THEN <<>>
    ELSE LET r == extract_handwriting(service, images[idx])
             rest == PageSections(service, images, idx + 1)
         IN  IF ~r.ok
             THEN <<PageMarker(idx) \o <<"\n">> \o ErrorPlaceholder>> \o rest
             ELSE IF Strip(r.text) # <<>>
             THEN <<PageMarker(idx) \o <<"\n">> \o r.text>> \o rest
             ELSE rest

\* OCRService.batch_process
batch_process(service, images) ==
    Join(<<"\n", "\n">>, PageSections(service, images, 1))

\* A faulty variant of TextInsufficient, for the sensitivity of C31: the
\* length of a page marker and its line end is left out of the count.
TextInsufficient_MarkerDiscounted(raw_text) ==
    raw_text = <<>> \/ Len(Strip(raw_text)) - 15 < 10

\* The content check of process_single_file:
\*   if not raw_text or len(raw_text.strip()) < 10: raise ValueError(...)
MinTextLen == 10
TextInsufficient(raw_text) ==
    raw_text = <<>> \/ Len(Strip(raw_text)) < MinTextLen

(***************************************************************************)
(* AIService: one language-model request per attempt.                      *)
(*                                                                         *)
(* A response is what client.chat.completions.create does on one attempt:  *)
(* it raises RateLimitError ("rate_limit") or another exception            *)
(* ("api_error"), or returns content; for the extraction call the content  *)
(* is text json.loads rejects ("bad_json") or a JSON object ("json", the   *)
(* object as a function from its keys to None or to text).                 *)
(***************************************************************************)
\* max_retries of extract_structured_data and of generate_summary (their
\* default; process_single_file passes none).
ExtractMaxRetries == 3
SummaryMaxRetries == 3
\* generate_summary: len(summary) < 10
MinSummaryLen == 10

Unknown == <<"U", "n", "k", "n", "o", "w", "n">>

RequiredFields ==
    {"firstName", "lastName", "docNumber", "facilityName", "address"}

\* dict.get(key, default)
Get(d, key, default) == IF key \in DOMAIN d THEN d[key] ELSE default

\* not value, for a value that is None or text
Falsy(v) == v = None \/ v = <<>>

\* A faulty variant of DefaultRequired, for the sensitivity of C13: only the
\* keys that are absent are defaulted.
DefaultRequired_AbsentOnly(d) ==
    [k \in (DOMAIN d) \cup RequiredFields |->
        IF k \notin DOMAIN d THEN Unknown ELSE d[k]]

\* for field in required_fields:
\*     if not extracted_data.get(field): extracted_data[field] = "Unknown"
DefaultRequired(d) ==
    [k \in (DOMAIN d) \cup RequiredFields |->
        IF k \in RequiredFields /\ Falsy(Get(d, k, None)) THEN Unknown
        ELSE d[k]]

RateLimitMessage == "Rate limit reached for requests"
ApiErrorMessage == "Connection error."
BadJsonMessage == "Failed to extract valid JSON from AI response"

\* A faulty variant of Pow2, for the sensitivity of C26: a wait that grows by
\* two seconds an attempt.
Pow2_Linear(n) == 2 * n

\* time.sleep(2 ** attempt)
Pow2(n) == 2^n

\* A faulty variant of ExtractAttempt, for the sensitivity of C16: a rate-limit
\* rejection is retried whatever the attempt.
ExtractAttempt_RateLimitAlwaysRetried(attempt, response, max_retries) ==
    CASE response.kind = "json" ->
           [do |-> "return", data |-> DefaultRequired(response.data),
            error |-> "", sleep |-> 0]
      [] response.kind = "rate_limit" ->
           [do |-> "retry", data |-> <<>>, error |-> "",
            sleep |-> Pow2(attempt)]
      [] response.kind = "bad_json" ->
           IF attempt < max_retries - 1
           THEN [do |-> "retry", data |-> <<>>, error |-> "", sleep |-> 1]
           ELSE [do |-> "raise", data |-> <<>>, error |-> BadJsonMessage,
                 sleep |-> 0]
      [] OTHER ->
           IF attempt < max_retries - 1
           THEN [do |-> "retry", data |-> <<>>, error |-> "", sleep |-> 1]
           ELSE [do |-> "raise", data |-> <<>>, error |-> ApiErrorMessage,
                 sleep |-> 0]

\* One pass through the loop body of extract_structured_data, on attempt
\* (0-based): the function returns the data, sleeps and continues, or raises.
ExtractAttempt(attempt, response, max_retries) ==
    CASE response.kind = "json" ->
           [do |-> "return", data |-> DefaultRequired(response.data),
            error |-> "", sleep |-> 0]
      [] response.kind = "rate_limit" ->
           IF attempt < max_retries - 1
           THEN [do |-> "retry", data |-> <<>>, error |-> "",
                 sleep |-> Pow2(attempt)]
           ELSE [do |-> "raise", data |-> <<>>, error |-> RateLimitMessage,
                 sleep |-> 0]
      [] response.kind = "bad_json" ->
           IF attempt < max_retries - 1
           THEN [do |-> "retry", data |-> <<>>, error |-> "", sleep |-> 1]
           ELSE [do |-> "raise", data |-> <<>>, error |-> BadJsonMessage,
                 sleep |-> 0]
      [] OTHER ->
           IF attempt < max_retries - 1
           THEN [do |-> "retry", data |-> <<>>, error |-> "", sleep |-> 1]
           ELSE [do |-> "raise", data |-> <<>>, error |-> ApiErrorMessage,
                 sleep |-> 0]

SummaryPlaceholder ==
    <<"L", "e", "t", "t", "e", "r", " ", "c", "o", "n", "t", "e", "n", "t",
      " ", "c", "o", "u", "l", "d", " ", "n", "o", "t", " ", "b", "e", " ",
      "s", "u", "m", "m", "a", "r", "i", "z", "e", "d", " ", "e", "f", "f",
      "e", "c", "t", "i", "v", "e", "l", "y", ".">>

\* A faulty variant of SummaryAttempt, for the sensitivity of C17: the
\* placeholder is returned at the first summary that is too short.
SummaryAttempt_PlaceholderAtOnce(attempt, response, max_retries) ==
    CASE response.kind = "text" ->
           LET summary == Strip(response.content)
           IN  IF summary = <<>> \/ Len(summary) < MinSummaryLen
               THEN [do |-> "return", summary |-> SummaryPlaceholder,
                     error |-> "", sleep |-> 0]
               ELSE [do |-> "return", summary |-> summary, error |-> "",
                     sleep |-> 0]
      [] response.kind = "rate_limit" ->
           IF attempt < max_retries - 1
           THEN [do |-> "retry", summary |-> <<>>, error |-> "",
                 sleep |-> Pow2(attempt)]
           ELSE [do |-> "raise", summary |-> <<>>,
                 error |-> RateLimitMessage, sleep |-> 0]
      [] OTHER ->
           IF attempt < max_retries - 1
           THEN [do |-> "retry", summary |-> <<>>, error |-> "", sleep |-> 1]
           ELSE [do |-> "raise", summary |-> <<>>, error |-> ApiErrorMessage,
                 sleep |-> 0]

\* One pass through the loop body of generate_summary.
SummaryAttempt(attempt, response, max_retries) ==
    CASE response.kind = "text" ->
           LET summary == Strip(response.content)
           IN  IF summary = <<>> \/ Len(summary) < MinSummaryLen
               THEN IF attempt < max_retries - 1
                    THEN [do |-> "retry", summary |-> <<>>, error |-> "",
                          sleep |-> 0]
                    ELSE [do |-> "return", summary |-> SummaryPlaceholder,
                          error |-> "", sleep |-> 0]
               ELSE [do |-> "return", summary |-> summary, error |-> "",
                     sleep |-> 0]
      [] response.kind = "rate_limit" ->
           IF attempt < max_retries - 1
           THEN [do |-> "retry", summary |-> <<>>, error |-> "",
                 sleep |-> Pow2(attempt)]
           ELSE [do |-> "raise", summary |-> <<>>,
                 error |-> RateLimitMessage, sleep |-> 0]
      [] OTHER ->
           IF attempt < max_retries - 1
           THEN [do |-> "retry", summary |-> <<>>, error |-> "", sleep |-> 1]
           ELSE [do |-> "raise", summary |-> <<>>, error |-> ApiErrorMessage,
                 sleep |-> 0]

\* The responses of the model's language-model backend.
Rep(c, n) == [i \in 1..n |-> c]

JsonFull ==
    [firstName |-> <<"J", "o">>, middleName |-> <<"A">>,
     lastName |-> <<"D", "o", "e">>, docNumber |-> <<"0", "7">>,
     facilityName |-> <<"C", "S", "P">>, address |-> <<"1", " ", "R", "d">>,
     unit |-> <<"B">>]

\* firstName and unit absent, lastName empty, middleName and facilityName null.
JsonSparse ==
    [middleName |-> None, lastName |-> <<>>, docNumber |-> <<"A", "1">>,
     facilityName |-> None, address |-> <<"1", " ", "R", "d">>]

\* A first name of 101 characters.
JsonLongName ==
    [JsonFull EXCEPT !.firstName = Rep("x", 101)]

ExtractResponses ==
    {[kind |-> "rate_limit"], [kind |-> "bad_json"], [kind |-> "api_error"]}
    \cup {[kind |-> "json", data |-> d] :
            d \in {JsonFull, JsonSparse, JsonLongName}}

GoodSummary ==
    <<"A", "s", "k", "s", " ", "f", "o", "r", " ", "l", "e", "g", "a", "l",
      " ", "h", "e", "l", "p", ".", " ">>
ShortSummary == <<"O", "k", ".">>

SummaryResponses ==
    {[kind |-> "rate_limit"], [kind |-> "api_error"],
     [kind |-> "text", content |-> GoodSummary],
     [kind |-> "text", content |-> ShortSummary]}

(***************************************************************************)
(* DocumentData (models/schemas.py): the pydantic field constraints.       *)
(***************************************************************************)
MaxNameLen == 100
MaxDocNumberLen == 50
MaxFacilityLen == 200
MaxAddressLen == 500
MaxUnitLen == 50

\* str with min_length / max_length (max 0: no upper limit)
StrField(v, min, max) ==
    v # None /\ Len(v) >= min /\ (max = 0 \/ Len(v) <= max)
\* Optional[str] with max_length
OptStrField(v, max) == v = None \/ Len(v) <= max

\* date_created: datetime.now().strftime('%Y-%m-%d')
Today == <<"2", "0", "2", "6", "-", "0", "1", "-", "0", "1">>

\* The keyword arguments process_single_file passes to DocumentData.
DocumentDataArgs(extracted_data, summary, raw_text) ==
    [first_name |-> Get(extracted_data, "firstName", Unknown),
     middle_name |-> Get(extracted_data, "middleName", None),
     last_name |-> Get(extracted_data, "lastName", Unknown),
     date_created |-> Today,
     doc_number |-> Get(extracted_data, "docNumber", Unknown),
     facility_name |-> Get(extracted_data, "facilityName", Unknown),
     address |-> Get(extracted_data, "address", Unknown),
     unit |-> Get(extracted_data, "unit", None),
     ai_summary |-> summary,
     raw_text |-> raw_text]

\* Whether DocumentData(**args) validates (otherwise ValidationError).
DocumentDataValid(a) ==
    /\ StrField(a.first_name, 1, MaxNameLen)
    /\ OptStrField(a.middle_name, MaxNameLen)
    /\ StrField(a.last_name, 1, MaxNameLen)
    /\ StrField(a.date_created, 0, 0)
    /\ StrField(a.doc_number, 1, MaxDocNumberLen)
    /\ StrField(a.facility_name, 1, MaxFacilityLen)
    /\ StrField(a.address, 1, MaxAddressLen)
    /\ OptStrField(a.unit, MaxUnitLen)
    /\ StrField(a.ai_summary, 1, 0)
    /\ StrField(a.raw_text, 1, 0)

(***************************************************************************)
(* StorageService (services/storage_service.py).                           *)
(*                                                                         *)
(* The CSV file is [header, rows]: whether its header line is there, and   *)
(* its data rows, each a function from the column names to the cell text.  *)
(***************************************************************************)
CSV_COLUMNS ==
    <<"First name", "Middle name", "Last name", "Date created", "DOC #",
      "Facility name", "Address", "Unit", "AI Summary", "Raw text">>

ColumnNames == {CSV_COLUMNS[i] : i \in 1..Len(CSV_COLUMNS)}

\* _ensure_csv_exists on a missing file: the header row alone.
EmptyCsv == [header |-> TRUE, rows |-> <<>>]

\* The dictionary process_single_file passes to append_to_csv.
StorageArgs(document_data) ==
    [firstName |-> document_data.first_name,
     middleName |-> document_data.middle_name,
     lastName |-> document_data.last_name,
     dateCreated |-> document_data.date_created,
     docNumber |-> document_data.doc_number,
     facilityName |-> document_data.facility_name,
     address |-> document_data.address,
     unit |-> document_data.unit,
     aiSummary |-> document_data.ai_summary,
     rawText |-> document_data.raw_text]

\* A faulty variant of validate_data, for the sensitivity of C18: the length
\* of docNumber is not checked.
validate_data_NoDocLimit(data) ==
    /\ \A field \in RequiredFields : ~Falsy(Get(data, field, None))
    /\ Len(Get(data, "firstName", <<>>)) <= MaxNameLen
    /\ Len(Get(data, "lastName", <<>>)) <= MaxNameLen

\* StorageService._validate_data
validate_data(data) ==
    /\ \A field \in RequiredFields : ~Falsy(Get(data, field, None))
    /\ Len(Get(data, "firstName", <<>>)) <= MaxNameLen
    /\ Len(Get(data, "lastName", <<>>)) <= MaxNameLen
    /\ Len(Get(data, "docNumber", <<>>)) <= MaxDocNumberLen

\* A faulty variant of RowData, for the sensitivity of C4: the first and
\* last names change columns.
RowData_NamesSwapped(data) ==
    [c \in ColumnNames |->
        CASE c = "First name" -> Get(data, "lastName", <<>>)
          [] c = "Middle name" -> Get(data, "middleName", <<>>)
          [] c = "Last name" -> Get(data, "firstName", <<>>)
          [] c = "Date created" ->
               IF Falsy(Get(data, "dateCreated", None)) THEN Today
               ELSE data["dateCreated"]
          [] c = "DOC #" -> Get(data, "docNumber", <<>>)
          [] c = "Facility name" -> Get(data, "facilityName", <<>>)
          [] c = "Address" -> Get(data, "address", <<>>)
          [] c = "Unit" -> Get(data, "unit", <<>>)
          [] c = "AI Summary" -> Get(data, "aiSummary", <<>>)
          [] OTHER -> Get(data, "rawText", <<>>)]

\* row_data of append_to_csv: the values, keyed by column.
RowData(data) ==
    [c \in ColumnNames |->
        CASE c = "First name" -> Get(data, "firstName", <<>>)
          [] c = "Middle name" -> Get(data, "middleName", <<>>)
          [] c = "Last name" -> Get(data, "lastName", <<>>)
          [] c = "Date created" ->
               IF Falsy(Get(data, "dateCreated", None)) THEN Today
               ELSE data["dateCreated"]
          [] c = "DOC #" -> Get(data, "docNumber", <<>>)
          [] c = "Facility name" -> Get(data, "facilityName", <<>>)
          [] c = "Address" -> Get(data, "address", <<>>)
          [] c = "Unit" -> Get(data, "unit", <<>>)
          [] c = "AI Summary" -> Get(data, "aiSummary", <<>>)
          [] OTHER -> Get(data, "rawText", <<>>)]

\* DataFrame.to_csv / to_excel of a value of the new row: None is written as
\* an empty cell, text as itself.
CellOf(v) == IF v = None THEN <<>> ELSE v

NewRow(row_data) == [c \in ColumnNames |-> CellOf(row_data[c])]

Digits == {"0", "1", "2", "3", "4", "5", "6", "7", "8", "9"}

DigitValue(c) ==
    CASE c = "0" -> 0 [] c = "1" -> 1 [] c = "2" -> 2 [] c = "3" -> 3
      [] c = "4" -> 4 [] c = "5" -> 5 [] c = "6" -> 6 [] c = "7" -> 7
      [] c = "8" -> 8 [] OTHER -> 9

IsIntLiteral(s) == s # <<>> /\ \A i \in 1..Len(s) : s[i] \in Digits

RECURSIVE StrToInt(_)
StrToInt(s) ==
    IF s = <<>> THEN 0
    ELSE 10 * StrToInt(SubSeq(s, 1, Len(s) - 1)) + DigitValue(s[Len(s)])

\* pd.read_csv followed by to_csv, for the cells of one column of the rows
\* already in the file.  read_csv infers the column's type: an empty cell is
\* missing (NaN); a column whose cells are all integer literals is read as
\* int64 and written back in canonical form; with a missing cell among them
\* it is read as float64 and written back as <n>.0; any other column keeps
\* its text.
RewrittenCell(cell, column) ==
    LET present == {i \in 1..Len(column) : column[i] # <<>>}
        numeric == present # {} /\ \A i \in present : IsIntLiteral(column[i])
        missing == \E i \in 1..Len(column) : column[i] = <<>>
    IN  IF cell = <<>> \/ ~numeric THEN cell
        ELSE IF missing THEN IntToStr(StrToInt(cell)) \o <<".", "0">>
        ELSE IntToStr(StrToInt(cell))

\* The rows of the file as read_csv + to_csv write them back.
RewrittenRows(rows) ==
    [r \in 1..Len(rows) |->
        [c \in ColumnNames |->
            RewrittenCell(rows[r][c], [i \in 1..Len(rows) |-> rows[i][c]])]]

\* What the lock-protected block does to the CSV file.  io names what the
\* file system does during the block: "ok"; "read_error" (read_csv raises,
\* the file is untouched); "write_error" (to_csv raises after f.truncate():
\* the file is left empty).  A file without its header line cannot be read
\* (EmptyDataError).
CsvAfterAppend(csv, row_data, io) ==
    IF io = "read_error" \/ ~csv.header THEN csv
    ELSE IF io = "write_error" THEN [header |-> FALSE, rows |-> <<>>]
    ELSE [header |-> TRUE,
          rows |-> Append(RewrittenRows(csv.rows), NewRow(row_data))]

CsvAppended(csv, io) == csv.header /\ io \notin {"read_error", "write_error"}

\* _append_to_excel: read_excel, concat, to_excel.  Text cells keep their
\* text in a workbook.
ExcelAfterAppend(excel, row_data) == Append(excel, NewRow(row_data))

\* append_to_csv(data) as a whole: the two files afterwards and the error it
\* raises ("" when it returns).  use_excel: self.excel_path is set.
append_to_csv(csv, excel, data, use_excel, io) ==
    IF ~validate_data(data)
    THEN [csv |-> csv, excel |-> excel,
          error |-> "Storage save failed: Data validation failed"]
    ELSE IF ~CsvAppended(csv, io)
    THEN [csv |-> CsvAfterAppend(csv, RowData(data), io), excel |-> excel,
          error |-> "Storage save failed: csv"]
    ELSE IF use_excel /\ io = "excel_error"
    THEN [csv |-> CsvAfterAppend(csv, RowData(data), io), excel |-> excel,
          error |-> "Storage save failed: Excel save failed"]
    ELSE [csv |-> CsvAfterAppend(csv, RowData(data), io),
          excel |-> IF use_excel THEN ExcelAfterAppend(excel, RowData(data))
                    ELSE excel,
          error |-> ""]

\* What the file system may do during one append_to_csv.
StorageIO == {"ok", "read_error", "write_error", "excel_error"}

(***************************************************************************)
(* The service: configuration, uploads, and the state of one request.      *)
(***************************************************************************)
\* Optional values: <<>> for None, <<v>> for v.
Some(v) == <<v>>
IsNone(o) == o = <<>>

PlaceholderKey ==
    <<"p", "l", "a", "c", "e", "h", "o", "l", "d", "e", "r", "-", "k", "e",
      "y">>
ValidKey == <<"s", "k", "-", "1">>

\* The rows of a store that already holds one record when the service
\* starts.
EarlierRow ==
    [c \in ColumnNames |->
        CASE c = "First name" -> <<"A", "n", "n">>
          [] c = "Last name" -> <<"L", "e", "e">>
          [] c = "Date created" -> Today
          [] c = "DOC #" -> <<"K", "9">>
          [] c = "Facility name" -> <<"C", "S", "P">>
          [] c = "Address" -> <<"1", " ", "R", "d">>
          [] c = "AI Summary" -> SummaryPlaceholder
          [] c = "Raw text" -> PageMarker(1) \o <<"\n", "H", "i">>
          [] OTHER -> <<>>]

\* The deployments of the model: the settings read from the environment
\* (config/settings.py), whether the Google Vision client can be built
\* (google_ok), and the two store files as StorageService.__init__ finds or
\* leaves them.
Deployments ==
    {[openai_api_key |-> ValidKey, excel_path |-> TRUE,
      ocr_provider |-> <<"g", "o", "o", "g", "l", "e">>, google_ok |-> TRUE,
      csv |-> [header |-> TRUE, rows |-> <<EarlierRow>>],
      excel |-> <<EarlierRow>>],
     [openai_api_key |-> <<" ", " ">>, excel_path |-> FALSE,
      ocr_provider |-> <<"G", "o", "o", "g", "l", "e">>, google_ok |-> FALSE,
      csv |-> EmptyCsv, excel |-> <<>>],
     [openai_api_key |-> <<>>, excel_path |-> TRUE,
      ocr_provider |-> <<"t", "e", "s", "s", "e", "r", "a", "c", "t">>,
      google_ok |-> FALSE, csv |-> EmptyCsv, excel |-> <<>>],
     [openai_api_key |-> PlaceholderKey, excel_path |-> TRUE,
      ocr_provider |-> <<"g", "o", "o", "g", "l", "e">>, google_ok |-> TRUE,
      csv |-> EmptyCsv, excel |-> <<>>]}

\* File contents: the first bytes, and what pdf2image finds behind them
\* (its pages, or a body it cannot convert).
PdfOfSize(n) == [i \in 1..n |-> IF i <= 4 THEN PdfMagic[i] ELSE "x"]
NotPdfBytes == <<"x", "P", "D", "F">>

Upload(name, bytes, corrupt, pages) ==
    [filename |-> name, content |-> bytes, corrupt |-> corrupt,
     pages |-> pages]

NameLower == <<"a", ".", "p", "d", "f">>
NameUpper == <<"B", ".", "P", "D", "F">>
NameText == <<"c", ".", "t", "x", "t">>

\* The uploads of the model.
Uploads ==
    {Upload(NameLower, PdfOfSize(MaxFileSize), FALSE, <<PageLong>>),
     Upload(NameUpper, PdfOfSize(MaxFileSize), FALSE, <<PageShort>>),
     Upload(NameLower, PdfOfSize(MaxFileSize), FALSE, <<PageBlank>>),
     Upload(NameLower, PdfOfSize(MaxFileSize), FALSE, <<>>),
     Upload(NameLower, PdfOfSize(MaxFileSize), TRUE, <<>>),
     Upload(NameLower, PdfOfSize(MaxFileSize + 1), FALSE, <<PageLong>>),
     Upload(NameLower, NotPdfBytes, FALSE, <<>>),
     Upload(NameText, PdfOfSize(MaxFileSize), FALSE, <<PageLong>>)}

RECURSIVE SeqsUpTo(_, _)
SeqsUpTo(S, n) ==
    IF n = 0 THEN {<<>>}
    ELSE LET shorter == SeqsUpTo(S, n - 1)
         IN  shorter \cup {Append(s, x) : s \in shorter, x \in S}

\* The file lists a client may post.
Batches == SeqsUpTo(Uploads, MaxFiles)

VARIABLES
    settings,        \* the deployment's settings
    ocr_service,     \* routes._ocr_service: None or the OCRService
    ai_service,      \* routes._ai_service: None or the AIService
    csv,             \* the CSV file
    excel,           \* the rows of the spreadsheet mirror
    files,           \* the files of the request
    response,        \* "none", "400" or "stream"
    pc,              \* where the request is
    index,           \* generate_progress: index (1-based)
    results,         \* generate_progress: results
    successful,      \* generate_progress: successful
    failed,          \* generate_progress: failed
    events,          \* the events yielded so far
    stage,           \* where process_single_file is
    pdf_bytes,       \* process_single_file: pdf_bytes
    images,          \* process_single_file: images
    raw_text,        \* process_single_file: raw_text
    extracted_data,  \* process_single_file: extracted_data
    summary,         \* process_single_file: summary
    document_data,   \* process_single_file: document_data
    attempt,         \* the attempt of the language-model call under way
    file_result,     \* what process_single_file returned
    calls,           \* per file, the steps process_single_file has entered
    csv_before,      \* the CSV file when the request arrived
    vIn,             \* validate_pdf under test: pdf_bytes
    vMax,            \* validate_pdf under test: max_size
    vOut,            \* validate_pdf under test: the result, once called
    bService,        \* batch_process under test: the OCRService
    bImages,         \* batch_process under test: images
    bOut,            \* batch_process under test: the result, once called
    rFn,             \* the AIService method under test
    rMax,            \* its max_retries
    rAttempt,        \* its loop variable attempt (0-based)
    rLog,            \* the requests it has issued: response and sleep after
    rOut,            \* what it returned or raised, once it has
    csv_present,     \* whether the CSV file exists
    use_excel,       \* StorageService.excel_path is set
    lock,            \* the holder of the flock on the CSV file, 0 when free
    writers,         \* the append_to_csv calls under way, one per process
    hEnv,            \* health_check under test: settings and installed libraries
    hOut             \* health_check under test: the response, once called

service_vars == <<settings, ocr_service, ai_service>>
store_vars == <<csv, excel>>
request_vars == <<files, response, csv_before>>
stream_vars == <<index, results, successful, failed, events>>
local_vars ==
    <<pdf_bytes, images, raw_text, extracted_data, summary, document_data,
      attempt>>
validate_vars == <<vIn, vMax, vOut>>
batch_vars == <<bService, bImages, bOut>>
retry_vars == <<rFn, rMax, rAttempt, rLog, rOut>>
writer_vars == <<csv_present, use_excel, lock, writers>>
health_vars == <<hEnv, hOut>>
probe_vars ==
    <<validate_vars, batch_vars, retry_vars, writer_vars, health_vars>>
vars ==
    <<settings, ocr_service, ai_service, csv, excel, files, response, pc,
      index, results, successful, failed, events, stage, pdf_bytes, images,
      raw_text, extracted_data, summary, document_data, attempt, file_result,
      calls, csv_before, vIn, vMax, vOut, bService, bImages, bOut, rFn, rMax,
      rAttempt, rLog, rOut, csv_present, use_excel, lock, writers, hEnv,
      hOut>>

\* The variables of the functions under test, when none is under test.
NoValidate == vIn = <<>> /\ vMax = 0 /\ vOut = <<>>
NoBatch == bService = <<>> /\ bImages = <<>> /\ bOut = <<>>
NoRetry ==
    rFn = "none" /\ rMax = 0 /\ rAttempt = 0 /\ rLog = <<>> /\ rOut = <<>>
NoWriters == lock = 0 /\ writers = <<>>
NoHealth == hEnv = <<>> /\ hOut = <<>>

NoLocals ==
    /\ pdf_bytes = <<>>
    /\ images = <<>>
    /\ raw_text = <<>>
    /\ extracted_data = <<>>
    /\ summary = <<>>
    /\ document_data = <<>>
    /\ attempt = 0

SettingNames ==
    {"openai_api_key", "excel_path", "ocr_provider", "google_ok"}

Init ==
    /\ \E d \in Deployments :
          /\ settings = [k \in SettingNames |-> d[k]]
          /\ csv = d.csv
          /\ excel = d.excel
    /\ ocr_service = <<>>
    /\ ai_service = <<>>
    /\ files = <<>>
    /\ response = "none"
    /\ pc = "idle"
    /\ index = 0
    /\ results = <<>>
    /\ successful = 0
    /\ failed = 0
    /\ events = <<>>
    /\ stage = "none"
    /\ NoLocals
    /\ file_result = <<>>
    /\ calls = <<>>
    /\ csv_before = csv
    /\ csv_present = TRUE
    /\ use_excel = settings.excel_path
    /\ NoValidate /\ NoBatch /\ NoRetry /\ NoWriters /\ NoHealth

\* Faulty variants of ProcessDocumentsStream, for the sensitivity of C6 and
\* C7: the request refused for a file name, and the empty list let through
\* to the generator.
ProcessDocumentsStream_NamesChecked ==
    /\ pc = "idle"
    /\ \E fs \in Batches :
          /\ files' = fs
          /\ IF fs = <<>>
                \/ \E i \in 1..Len(fs) :
                      ~EndsWith(Lower(fs[i].filename), PdfSuffix)
             THEN /\ response' = "400"
                  /\ pc' = "done"
                  /\ index' = index
             ELSE /\ response' = "stream"
                  /\ pc' = "progress"
                  /\ index' = 1
    /\ csv_before' = csv
    /\ UNCHANGED <<service_vars, store_vars, results, successful, failed,
                   events, stage, local_vars, file_result, calls, probe_vars>>

ProcessDocumentsStream_EmptyAllowed ==
    /\ pc = "idle"
    /\ \E fs \in Batches :
          /\ files' = fs
          /\ response' = "stream"
          /\ pc' = IF fs = <<>> THEN "complete" ELSE "progress"
          /\ index' = 1
    /\ csv_before' = csv
    /\ UNCHANGED <<service_vars, store_vars, results, successful, failed,
                   events, stage, local_vars, file_result, calls, probe_vars>>

(***************************************************************************)
(* POST /process: process_documents_stream and generate_progress.          *)
(***************************************************************************)
\* The handler's body up to the StreamingResponse: an empty list is answered
\* 400 "No files provided"; any other list starts the stream.
ProcessDocumentsStream ==
    /\ pc = "idle"
    /\ \E fs \in Batches :
          /\ files' = fs
          /\ IF fs = <<>>
             THEN /\ response' = "400"
                  /\ pc' = "done"
                  /\ index' = index
             ELSE /\ response' = "stream"
                  /\ pc' = "progress"
                  /\ index' = 1
    /\ csv_before' = csv
    /\ UNCHANGED <<service_vars, store_vars, results, successful, failed,
                   events, stage, local_vars, file_result, calls, probe_vars>>

(***************************************************************************)
(* int(((index - 1) / total_files) * 100), as Python computes it: the      *)
(* quotient and the product are IEEE 754 doubles, each rounded to          *)
(* MantissaBits significant bits, to nearest, ties to even; int()          *)
(* truncates.  The bits are kept in functions, least significant first,    *)
(* so that no number of the computation exceeds the integers of the        *)
(* checker.                                                                *)
(***************************************************************************)
MantissaBits == 53

\* The largest batch whose progress events are computed.
MaxBatch == 50

\* 2^k mod n, by squaring.
RECURSIVE PowMod2(_, _)
PowMod2(k, n) ==
    IF k = 0 THEN 1 % n
    ELSE LET half == PowMod2(k \div 2, n)
         IN  (half * half * (IF k % 2 = 1 THEN 2 ELSE 1)) % n

\* int((a / n) * 100) for 0 < a < n.  Every list of bits is built once, as
\* a sequence.
FloatPercentage(a, n) ==
    LET K == MantissaBits + 27
        \* a / n in binary: b[k] is the bit of weight 2^-k, r[k + 1] what
        \* is left of the division after it (r[1] = a)
        r == SubSeq([k \in 1..(K + 1) |-> (a * PowMod2(k - 1, n)) % n],
                    1, K + 1)
        b == SubSeq([k \in 1..K |-> (2 * r[k]) \div n], 1, K)
        \* the number of zero bits before the first one
        z == (CHOOSE k \in 1..K : b[k] = 1 /\ \A j \in 1..(k - 1) : b[j] = 0) - 1
        \* the mantissa of the quotient before rounding, bit 1 the last
        M == SubSeq([j \in 1..MantissaBits |-> b[z + MantissaBits + 1 - j]],
                    1, MantissaBits)
        up == /\ b[z + MantissaBits + 1] = 1
              /\ r[z + MantissaBits + 2] # 0 \/ M[1] = 1
        \* the number of one bits at the end of M
        ones == IF \A t \in 1..MantissaBits : M[t] = 1 THEN MantissaBits
                ELSE (CHOOSE t \in 1..MantissaBits :
                         M[t] = 0 /\ \A u \in 1..(t - 1) : M[u] = 1) - 1
        \* the rounded quotient on 64 bits: M, plus one in the last place
        \* when up
        m == SubSeq([j \in 1..64 |->
                       LET Mj == IF j <= MantissaBits THEN M[j] ELSE 0
                       IN  IF j > MantissaBits + 1 THEN 0
                           ELSE IF up /\ j <= ones + 1 THEN 1 - Mj
                           ELSE Mj],
                    1, 64)
        \* the same in eight bytes, and its exact product by 100: V[l] is
        \* byte l of the product with the carry into the next byte
        Byte == SubSeq([l \in 1..8 |->
                          m[8 * l - 7] + 2 * m[8 * l - 6] + 4 * m[8 * l - 5]
                             + 8 * m[8 * l - 4] + 16 * m[8 * l - 3]
                             + 32 * m[8 * l - 2] + 64 * m[8 * l - 1]
                             + 128 * m[8 * l]],
                       1, 8)
        V[l \in 0..8] == IF l = 0 THEN 0
                         ELSE 100 * Byte[l] + (V[l - 1] \div 256)
        \* the bits of the product
        o == SubSeq([k \in 1..64 |->
                       ((V[((k - 1) \div 8) + 1] % 256)
                           \div (2^((k - 1) % 8))) % 2],
                    1, 64)
        \* bits above point are the integer part of the product
        point == z + MantissaBits
        I == LET RECURSIVE Sum(_)
                 Sum(k) == IF k > 64 THEN 0 ELSE o[k] + 2 * Sum(k + 1)
             IN  Sum(point + 1)
        h == CHOOSE k \in 1..64 : o[k] = 1 /\ \A j \in (k + 1)..64 : o[j] = 0
        upP == /\ h - MantissaBits >= 1
               /\ o[h - MantissaBits] = 1
               /\ \/ \E j \in 1..(h - MantissaBits - 1) : o[j] = 1
                  \/ o[h - MantissaBits + 1] = 1
    IN  IF upP /\ \A k \in (h - MantissaBits + 1)..point : o[k] = 1
        THEN I + 1
        ELSE I

\* The percentages of every batch size considered, computed once.
PercentageTable ==
    [total \in 1..MaxBatch |->
       [i \in 1..total |->
          IF i = 1 THEN 0 ELSE FloatPercentage(i - 1, total)]]

\* int(((index - 1) / total_files) * 100)
Percentage(i, total) == PercentageTable[total][i]

\* A faulty variant of ProgressEvent, for the sensitivity of C1: the files
\* counted from zero.
ProgressEvent_FromZero(i, total, file) ==
    [type |-> "progress", current |-> i - 1, total |-> total,
     filename |-> file.filename, percentage |-> Percentage(i, total)]

ProgressEvent(i, total, file) ==
    [type |-> "progress", current |-> i, total |-> total,
     filename |-> file.filename, percentage |-> Percentage(i, total)]

\* yield json.dumps(progress_data); then process_single_file(file) starts.
YieldProgress ==
    /\ pc = "progress"
    /\ events' = Append(events, ProgressEvent(index, Len(files), files[index]))
    /\ pc' = "process"
    /\ stage' = "check_filename"
    /\ calls' = Append(calls, <<>>)
    /\ UNCHANGED <<service_vars, store_vars, request_vars, index, results,
                   successful, failed, local_vars, file_result, probe_vars>>

(***************************************************************************)
(* process_single_file, step by step.  A step that raises ends the file:   *)
(* the except clauses build the failed FileProcessResult and return it.    *)
(***************************************************************************)
\* time.time() - start_time
Elapsed == "elapsed"

\* A faulty variant of FailedResult, for the sensitivity of C30: the failed
\* result keeps the record built before the failure.
FailedResult_KeepsData(filename, error_msg) ==
    [filename |-> filename, success |-> FALSE, data |-> document_data,
     error |-> Some(error_msg), processing_time |-> Elapsed]

FailedResult(filename, error_msg) ==
    [filename |-> filename, success |-> FALSE, data |-> <<>>,
     error |-> Some(error_msg), processing_time |-> Elapsed]

SucceededResult(filename, data) ==
    [filename |-> filename, success |-> TRUE, data |-> Some(data),
     error |-> <<>>, processing_time |-> Elapsed]

Enter(step) == calls' = [calls EXCEPT ![index] = Append(@, step)]

\* A faulty variant of Raise, for the sensitivity of C23: the failed result
\* carries one message whatever the stage.
Raise_OneMessage(error_msg) ==
    /\ file_result' =
          Some(FailedResult(files[index].filename, "Processing failed"))
    /\ pc' = "result"
    /\ stage' = "none"

\* A faulty variant of Raise, for the sensitivity of C2: the exception
\* leaves process_single_file and ends the generator.
Raise_Uncaught(error_msg) ==
    /\ file_result' = file_result
    /\ pc' = "done"
    /\ stage' = "none"

\* except HTTPException / except Exception: return the failed result.
Raise(error_msg) ==
    /\ file_result' = Some(FailedResult(files[index].filename, error_msg))
    /\ pc' = "result"
    /\ stage' = "none"

\* A faulty variant of IsPdfName, for the sensitivity of C5: every name
\* passes.
IsPdfName_AnyName(filename) == Len(filename) >= 0

\* if not filename.lower().endswith('.pdf'): raise ValueError(...)
IsPdfName(filename) == EndsWith(Lower(filename), PdfSuffix)

CheckFilename ==
    /\ pc = "process" /\ stage = "check_filename"
    /\ Enter("check_filename")
    /\ IF ~IsPdfName(files[index].filename)
       THEN Raise("Only PDF files are allowed")
       ELSE /\ stage' = "read"
            /\ UNCHANGED <<pc, file_result>>
    /\ UNCHANGED <<service_vars, store_vars, request_vars, stream_vars,
                   local_vars, probe_vars>>

\* pdf_bytes = await file.read()
ReadFile ==
    /\ pc = "process" /\ stage = "read"
    /\ Enter("read")
    /\ pdf_bytes' = files[index].content
    /\ stage' = "validate_pdf"
    /\ UNCHANGED <<service_vars, store_vars, request_vars, stream_vars, pc,
                   images, raw_text, extracted_data, summary, document_data,
                   attempt, file_result, probe_vars>>

\* is_valid, error_msg = pdf_processor.validate_pdf(pdf_bytes, max_file_size)
ValidatePdf ==
    /\ pc = "process" /\ stage = "validate_pdf"
    /\ Enter("validate_pdf")
    /\ LET r == validate_pdf(pdf_bytes, MaxFileSize)
       IN  IF ~r[1]
           THEN Raise(r[2])
           ELSE /\ stage' = "extract_images"
                /\ UNCHANGED <<pc, file_result>>
    /\ UNCHANGED <<service_vars, store_vars, request_vars, stream_vars,
                   local_vars, probe_vars>>

\* images = pdf_processor.extract_images(pdf_bytes)
ExtractImages ==
    /\ pc = "process" /\ stage = "extract_images"
    /\ Enter("extract_images")
    /\ IF files[index].corrupt
       THEN /\ Raise("PDF processing failed: Unable to get page count")
            /\ images' = images
       ELSE /\ images' = files[index].pages
            /\ stage' = "get_ocr_service"
            /\ UNCHANGED <<pc, file_result>>
    /\ UNCHANGED <<service_vars, store_vars, request_vars, stream_vars,
                   pdf_bytes, raw_text, extracted_data, summary,
                   document_data, attempt, probe_vars>>

\* ocr_service = get_ocr_service(): built on first use, then reused.
GetOcrService ==
    /\ pc = "process" /\ stage = "get_ocr_service"
    /\ Enter("get_ocr_service")
    /\ ocr_service' =
          IF IsNone(ocr_service)
          THEN Some(OCRServiceInit(settings.ocr_provider, settings.google_ok))
          ELSE ocr_service
    /\ stage' = "batch_process"
    /\ UNCHANGED <<settings, ai_service, store_vars, request_vars,
                   stream_vars, pc, local_vars, file_result, probe_vars>>

\* raw_text = ocr_service.batch_process(images), then the content check.
BatchProcess ==
    /\ pc = "process" /\ stage = "batch_process"
    /\ Enter("batch_process")
    /\ raw_text' = batch_process(ocr_service[1], images)
    /\ IF TextInsufficient(raw_text')
       THEN Raise("No text could be extracted from the document")
       ELSE /\ stage' = "get_ai_service"
            /\ UNCHANGED <<pc, file_result>>
    /\ UNCHANGED <<service_vars, store_vars, request_vars, stream_vars,
                   pdf_bytes, images, extracted_data, summary, document_data,
                   attempt, probe_vars>>

\* get_ai_service(): the checks on settings.openai_api_key; a failure is an
\* HTTPException(503) whose detail becomes the file's error.
AiKeyError(key) ==
    IF key = <<>> \/ key = PlaceholderKey
    THEN "AI service initialization failed: OpenAI API key not configured"
    ELSE IF Strip(key) = <<>>
    THEN "AI service initialization failed: OpenAI API key is empty"
    ELSE ""

GetAiService ==
    /\ pc = "process" /\ stage = "get_ai_service"
    /\ Enter("get_ai_service")
    /\ IF ~IsNone(ai_service)
       THEN /\ stage' = "extract_structured_data"
            /\ UNCHANGED <<ai_service, pc, file_result>>
       ELSE IF AiKeyError(settings.openai_api_key) # ""
       THEN /\ Raise(AiKeyError(settings.openai_api_key))
            /\ UNCHANGED ai_service
       ELSE /\ ai_service' = Some([api_key |-> Strip(settings.openai_api_key)])
            /\ stage' = "extract_structured_data"
            /\ UNCHANGED <<pc, file_result>>
    /\ UNCHANGED <<settings, ocr_service, store_vars, request_vars,
                   stream_vars, local_vars, probe_vars>>

\* The step names calls gains when a language-model call is entered: once per
\* call, on its first attempt.
EnterOnFirstAttempt(step) ==
    IF attempt = 0 THEN Enter(step) ELSE UNCHANGED calls

\* extracted_data = ai_service.extract_structured_data(raw_text): one
\* request of its retry loop.
ExtractRequest ==
    /\ pc = "process" /\ stage = "extract_structured_data"
    /\ EnterOnFirstAttempt("extract_structured_data")
    /\ \E resp \in ExtractResponses :
          LET o == ExtractAttempt(attempt, resp, ExtractMaxRetries)
          IN  CASE o.do = "return" ->
                     /\ extracted_data' = o.data
                     /\ attempt' = 0
                     /\ stage' = "generate_summary"
                     /\ UNCHANGED <<pc, file_result>>
                [] o.do = "retry" ->
                     /\ attempt' = attempt + 1
                     /\ UNCHANGED <<extracted_data, stage, pc, file_result>>
                [] OTHER ->
                     /\ Raise(o.error)
                     /\ attempt' = 0
                     /\ UNCHANGED extracted_data
    /\ UNCHANGED <<service_vars, store_vars, request_vars, stream_vars,
                   pdf_bytes, images, raw_text, summary, document_data,
                   probe_vars>>

\* summary = ai_service.generate_summary(raw_text): one request of its retry
\* loop.
SummaryRequest ==
    /\ pc = "process" /\ stage = "generate_summary"
    /\ EnterOnFirstAttempt("generate_summary")
    /\ \E resp \in SummaryResponses :
          LET o == SummaryAttempt(attempt, resp, SummaryMaxRetries)
          IN  CASE o.do = "return" ->
                     /\ summary' = o.summary
                     /\ attempt' = 0
                     /\ stage' = "DocumentData"
                     /\ UNCHANGED <<pc, file_result>>
                [] o.do = "retry" ->
                     /\ attempt' = attempt + 1
                     /\ UNCHANGED <<summary, stage, pc, file_result>>
                [] OTHER ->
                     /\ Raise(o.error)
                     /\ attempt' = 0
                     /\ UNCHANGED summary
    /\ UNCHANGED <<service_vars, store_vars, request_vars, stream_vars,
                   pdf_bytes, images, raw_text, extracted_data,
                   document_data, probe_vars>>

\* document_data = DocumentData(...): pydantic validates the fields.
ConstructDocumentData ==
    /\ pc = "process" /\ stage = "DocumentData"
    /\ Enter("DocumentData")
    /\ LET args == DocumentDataArgs(extracted_data, summary, raw_text)
       IN  IF DocumentDataValid(args)
           THEN /\ document_data' = Some(args)
                /\ stage' = "append_to_csv"
                /\ UNCHANGED <<pc, file_result>>
           ELSE /\ Raise("1 validation error for DocumentData")
                /\ UNCHANGED document_data
    /\ UNCHANGED <<service_vars, store_vars, request_vars, stream_vars,
                   pdf_bytes, images, raw_text, extracted_data, summary,
                   attempt, probe_vars>>

\* storage_service.append_to_csv({...}), then return the successful result.
AppendToCsv ==
    /\ pc = "process" /\ stage = "append_to_csv"
    /\ Enter("append_to_csv")
    /\ \E io \in StorageIO :
          /\ io = "excel_error" => settings.excel_path
          /\ LET r == append_to_csv(csv, excel, StorageArgs(document_data[1]),
                                    settings.excel_path, io)
             IN  /\ csv' = r.csv
                 /\ excel' = r.excel
                 /\ IF r.error # ""
                    THEN Raise(r.error)
                    ELSE /\ file_result' =
                               Some(SucceededResult(files[index].filename,
                                                    document_data[1]))
                         /\ pc' = "result"
                         /\ stage' = "none"
    /\ UNCHANGED <<service_vars, request_vars, stream_vars, local_vars,
                   probe_vars>>

\* "data": file_result.data.model_dump() if file_result.data else None
ResultDump(r) ==
    [filename |-> r.filename, success |-> r.success, data |-> r.data,
     error |-> r.error, processing_time |-> r.processing_time]

ResultEvent(r) == [type |-> "result", result |-> ResultDump(r)]

\* Back in generate_progress: results.append, the counters, the result
\* event; then the next file, or the end of the loop.
YieldResult ==
    /\ pc = "result"
    /\ results' = Append(results, file_result[1])
    /\ successful' = IF file_result[1].success THEN successful + 1
                     ELSE successful
    /\ failed' = IF file_result[1].success THEN failed ELSE failed + 1
    /\ events' = Append(events, ResultEvent(file_result[1]))
    /\ IF index < Len(files)
       THEN /\ index' = index + 1
            /\ pc' = "progress"
       ELSE /\ index' = index
            /\ pc' = "complete"
    /\ pdf_bytes' = <<>>
    /\ images' = <<>>
    /\ raw_text' = <<>>
    /\ extracted_data' = <<>>
    /\ summary' = <<>>
    /\ document_data' = <<>>
    /\ attempt' = 0
    /\ file_result' = <<>>
    /\ UNCHANGED <<service_vars, store_vars, request_vars, stage, calls,
                   probe_vars>>

\* A faulty variant of CompleteEvent, for the sensitivity of C3: every file
\* counted as processed.
CompleteEvent_AllProcessed(total_files, n_ok, n_failed, rs) ==
    [type |-> "complete",
     summary |-> [total_files |-> total_files, processed |-> total_files,
                  failed |-> n_failed,
                  results |-> [i \in 1..Len(rs) |-> ResultDump(rs[i])]]]

CompleteEvent(total_files, n_ok, n_failed, rs) ==
    [type |-> "complete",
     summary |-> [total_files |-> total_files, processed |-> n_ok,
                  failed |-> n_failed,
                  results |-> [i \in 1..Len(rs) |-> ResultDump(rs[i])]]]

\* yield json.dumps(complete_data): the last event.
YieldComplete ==
    /\ pc = "complete"
    /\ events' =
          Append(events, CompleteEvent(Len(files), successful, failed, results))
    /\ pc' = "done"
    /\ UNCHANGED <<service_vars, store_vars, request_vars, index, results,
                   successful, failed, stage, local_vars, file_result, calls,
                   probe_vars>>

Next ==
    \/ ProcessDocumentsStream
    \/ YieldProgress
    \/ CheckFilename
    \/ ReadFile
    \/ ValidatePdf
    \/ ExtractImages
    \/ GetOcrService
    \/ BatchProcess
    \/ GetAiService
    \/ ExtractRequest
    \/ SummaryRequest
    \/ ConstructDocumentData
    \/ AppendToCsv
    \/ YieldResult
    \/ YieldComplete

Spec == Init /\ [][Next]_vars

(***************************************************************************)
(* validate_pdf on its own: every byte string of up to MaxFileSize + 1     *)
(* bytes over a small alphabet, against every limit up to MaxFileSize.     *)
(***************************************************************************)
ByteAlphabet == {"%", "P", "D", "F", "x"}

\* No request is under way: one function is called on its own.
NoRequestWith(the_settings) ==
    /\ settings = the_settings
    /\ ocr_service = <<>>
    /\ ai_service = <<>>
    /\ files = <<>>
    /\ response = "none"
    /\ pc = "probe"
    /\ index = 0
    /\ results = <<>>
    /\ successful = 0
    /\ failed = 0
    /\ events = <<>>
    /\ stage = "none"
    /\ NoLocals
    /\ file_result = <<>>
    /\ calls = <<>>
    /\ csv_before = csv

NoRequest == NoRequestWith([k \in SettingNames |-> <<>>])

\* The store is not involved.
NoStore ==
    /\ csv = EmptyCsv
    /\ excel = <<>>
    /\ csv_present = TRUE
    /\ use_excel = FALSE
    /\ NoWriters

request_state ==
    <<service_vars, request_vars, stream_vars, pc, stage, local_vars,
      file_result, calls>>

InitValidate ==
    /\ NoStore /\ NoRequest
    /\ vIn \in SeqsUpTo(ByteAlphabet, MaxFileSize + 1)
    /\ vMax \in 0..MaxFileSize
    /\ vOut = <<>>
    /\ NoBatch /\ NoRetry /\ NoHealth

CallValidatePdf ==
    /\ pc = "probe"
    /\ vOut = <<>>
    /\ vOut' = Some(validate_pdf(vIn, vMax))
    /\ UNCHANGED <<request_state, store_vars, vIn, vMax, batch_vars,
                   retry_vars, writer_vars, health_vars>>

SpecValidate == InitValidate /\ [][CallValidatePdf]_vars

(***************************************************************************)
(* Properties of the event stream.                                         *)
(***************************************************************************)
Streaming == response = "stream"
NFiles == Len(files)

\* File i has entered process_single_file.
Started(i) == i <= Len(calls) /\ calls[i] # <<>>
\* The result event of file i has been yielded.
ResultEmitted(i) == Len(events) >= 2 * i

\* C1: the stream of a batch of n files is progress 1, result 1, ...,
\* progress n, result n, complete: 2n+1 events in that order once the stream
\* has ended, the complete event last; and file i+1 does not enter
\* process_single_file before the result event of file i has been yielded.
C1_StreamOrder ==
    Streaming =>
      /\ Len(events) <= 2 * NFiles + 1
      /\ \A k \in 1..Len(events) :
            IF k = 2 * NFiles + 1 THEN events[k].type = "complete"
            ELSE IF k % 2 = 1
            THEN /\ events[k].type = "progress"
                 /\ events[k].current = (k + 1) \div 2
                 /\ events[k].filename = files[(k + 1) \div 2].filename
            ELSE /\ events[k].type = "result"
                 /\ events[k].result.filename = files[k \div 2].filename
      /\ pc = "done" => Len(events) = 2 * NFiles + 1
      /\ \A i \in 1..NFiles :
            Started(i) => /\ Len(events) >= 2 * i - 1
                          /\ \A j \in 1..(i - 1) : ResultEmitted(j)
      /\ \A i \in 1..NFiles :
            ResultEmitted(i) => i <= Len(results) \/ pc = "done"

\* A stream of two files has ended with its five events.
C1_Witness ==
    Streaming /\ pc = "done" /\ NFiles = 2 /\ Len(events) = 5

\* C2: a failure of a file at any step never aborts the batch: the failed
\* file has a FileProcessResult with success false and a non-empty error
\* message, its result event is yielded, the request is never stuck before
\* its last event, and at the end of the stream every file has been through
\* process_single_file and has its result event, followed by the complete
\* event.
C2_FailureKeepsBatch ==
    Streaming =>
      /\ \A i \in 1..Len(results) :
            ~results[i].success =>
               /\ results[i].error # <<>> /\ results[i].error[1] # ""
               /\ ResultEmitted(i)
               /\ events[2 * i].result = ResultDump(results[i])
      /\ (pc = "result" /\ ~file_result[1].success) =>
            (file_result[1].error # <<>> /\ file_result[1].error[1] # "")
      /\ pc # "done" => ENABLED Next
      /\ pc = "done" =>
            /\ Len(results) = NFiles
            /\ \A j \in 1..NFiles :
                  Started(j) /\ events[2 * j].type = "result"
            /\ events[Len(events)].type = "complete"

\* The first of two files failed, the second one succeeded, and the stream
\* ended.
C2_Witness ==
    /\ Streaming /\ pc = "done" /\ NFiles = 2
    /\ ~results[1].success /\ results[2].success

\* The number of results with the given success flag.
RECURSIVE CountSuccess(_, _)
CountSuccess(rs, flag) ==
    IF rs = <<>> THEN 0
    ELSE (IF Head(rs).success = flag THEN 1 ELSE 0)
         + CountSuccess(Tail(rs), flag)

\* C3: in the complete event, total_files is the number of files, processed
\* and failed count the results with success true and false and add up to
\* total_files, and results lists, in submission order, exactly what the
\* result event of each file carried.
C3_SummaryCounts ==
    \A k \in 1..Len(events) :
       events[k].type = "complete" =>
          LET s == events[k].summary
          IN  /\ s.total_files = NFiles
              /\ s.processed + s.failed = s.total_files
              /\ s.processed = CountSuccess(s.results, TRUE)
              /\ s.failed = CountSuccess(s.results, FALSE)
              /\ Len(s.results) = NFiles
              /\ \A i \in 1..NFiles :
                    /\ events[2 * i].type = "result"
                    /\ s.results[i] = events[2 * i].result
                    /\ s.results[i].filename = files[i].filename

\* A complete event that counts one processed and one failed file.
C3_Witness ==
    /\ pc = "done" /\ Streaming /\ NFiles = 2
    /\ events[5].summary.processed = 1
    /\ events[5].summary.failed = 1

(***************************************************************************)
(* Properties of one file's processing.                                    *)
(***************************************************************************)
LastRow(file) == file.rows[Len(file.rows)]

\* The row the claim expects for the values process_single_file holds.
ExpectedRow(fields, the_summary, ocr_text) ==
    [c \in ColumnNames |->
        CASE c = "First name" -> fields["firstName"]
          [] c = "Middle name" ->
               IF "middleName" \in DOMAIN fields /\ fields["middleName"] # None
               THEN fields["middleName"] ELSE <<>>
          [] c = "Last name" -> fields["lastName"]
          [] c = "Date created" -> Today
          [] c = "DOC #" -> fields["docNumber"]
          [] c = "Facility name" -> fields["facilityName"]
          [] c = "Address" -> fields["address"]
          [] c = "Unit" ->
               IF "unit" \in DOMAIN fields /\ fields["unit"] # None
               THEN fields["unit"] ELSE <<>>
          [] c = "AI Summary" -> the_summary
          [] OTHER -> ocr_text]

\* C4: a batch of one file that is processed successfully yields exactly the
\* three events progress, result (success) and complete, with total_files 1,
\* processed 1 and failed 0; the CSV file has exactly one row more than when
\* the request arrived, already there when process_single_file returns
\* (before the result event is yielded), and that row carries the extracted
\* fields, the summary and the OCR text in their columns.
C4_SingleFileEndToEnd ==
    (Streaming /\ NFiles = 1) =>
      /\ (pc = "result" /\ file_result[1].success) =>
            /\ Len(events) = 1
            /\ Len(csv.rows) = Len(csv_before.rows) + 1
            /\ LastRow(csv) = ExpectedRow(extracted_data, summary, raw_text)
      /\ (pc = "done" /\ results[1].success) =>
            /\ Len(events) = 3
            /\ events[1].type = "progress"
            /\ events[2].type = "result" /\ events[2].result.success
            /\ events[3].type = "complete"
            /\ events[3].summary.total_files = 1
            /\ events[3].summary.processed = 1
            /\ events[3].summary.failed = 0
            /\ Len(csv.rows) = Len(csv_before.rows) + 1
            /\ LET d == events[2].result.data[1]
               IN  /\ LastRow(csv)["First name"] = d.first_name
                   /\ LastRow(csv)["Last name"] = d.last_name
                   /\ LastRow(csv)["DOC #"] = d.doc_number
                   /\ LastRow(csv)["AI Summary"] = d.ai_summary
                   /\ LastRow(csv)["Raw text"] = d.raw_text

\* The stream of a single, successfully processed file has ended, with all
\* seven fields extracted.
C4_Witness ==
    /\ Streaming /\ NFiles = 1 /\ pc = "done" /\ results[1].success
    /\ LastRow(csv)["First name"] = JsonFull.firstName
    /\ LastRow(csv)["Unit"] = JsonFull.unit

ContentSteps == {"read", "validate_pdf", "extract_images", "batch_process"}
StepsOf(i) == {calls[i][k] : k \in 1..Len(calls[i])}

\* The file name ends in ".pdf", compared character by character.
EndsInDotPdf(name) == EndsWith(name, PdfSuffix)

\* The file name ends in ".pdf" in any mix of upper and lower case.
EndsInDotPdfAnyCase(name) ==
    /\ Len(name) >= 4
    /\ name[Len(name) - 3] = "."
    /\ name[Len(name) - 2] \in {"p", "P"}
    /\ name[Len(name) - 1] \in {"d", "D"}
    /\ name[Len(name)] \in {"f", "F"}

\* What C5 says of the files selected by NotPdf: none of them has its
\* content read, validated, rasterized or OCR'd, each gets a failed result
\* "Only PDF files are allowed", and at the end of the stream every file of
\* the batch has its result, the other files having gone on to be read.
RejectedByName(NotPdf(_)) ==
    Streaming =>
      /\ \A i \in 1..Len(calls) :
            NotPdf(files[i].filename) =>
               /\ StepsOf(i) \cap ContentSteps = {}
               /\ i <= Len(results) =>
                     /\ ~results[i].success
                     /\ results[i].error = Some("Only PDF files are allowed")
                     /\ events[2 * i].result.success = FALSE
                     /\ events[2 * i].result.error =
                           Some("Only PDF files are allowed")
      /\ pc = "done" =>
            /\ Len(results) = NFiles
            /\ \A j \in 1..NFiles :
                  ~NotPdf(files[j].filename) => "read" \in StepsOf(j)

NotDotPdf(name) == ~EndsInDotPdf(name)
NotDotPdfAnyCase(name) == ~EndsInDotPdfAnyCase(name)

\* C5 as stated: a file whose name does not end in ".pdf" is rejected by
\* name, its content untouched, and the other files are still processed.
C5_Original == RejectedByName(NotDotPdf)

\* C5 as amended: a file whose name does not end in ".pdf" in any letter
\* case is rejected by name, its content untouched, and the other files,
\* those named ".PDF" among them, are still processed.
C5_NonPdfNameRejected == RejectedByName(NotDotPdfAnyCase)

\* A batch of a file named c.txt and a PDF has ended: the first was rejected
\* by name, the second was processed successfully.
C5_Witness ==
    /\ Streaming /\ pc = "done" /\ NFiles = 2
    /\ files[1].filename = NameText
    /\ results[1].error = Some("Only PDF files are allowed")
    /\ results[2].success

\* C6 as stated: a request in which some file's name does not end in ".pdf"
\* is rejected as a whole with a client error, and no event stream starts.
C6_Original ==
    (response # "none"
       /\ \E i \in 1..NFiles : ~EndsInDotPdf(files[i].filename))
    => (response = "400" /\ events = <<>>)

\* C6 as amended: the request is rejected (400) only for an empty file list;
\* a request with files always starts the stream, whatever the names, and a
\* file whose name does not end in ".pdf" in any letter case gets a failed
\* result event in that stream.
C6_NamesNeverRejectRequest ==
    response # "none" =>
      /\ response = "400" <=> files = <<>>
      /\ (\E i \in 1..NFiles : ~EndsInDotPdfAnyCase(files[i].filename)) =>
            /\ Streaming
            /\ pc # "idle"
            /\ pc = "done" =>
                  \A i \in 1..NFiles :
                     ~EndsInDotPdfAnyCase(files[i].filename) =>
                        /\ events[2 * i].type = "result"
                        /\ ~events[2 * i].result.success

\* The stream of a request holding only a file named c.txt has ended.
C6_Witness ==
    /\ Streaming /\ pc = "done" /\ NFiles = 1
    /\ files[1].filename = NameText
    /\ Len(events) = 3

\* C7: a request with an empty file list is answered 400 and that is all:
\* no event is yielded, no file is processed, the store is untouched.
C7_EmptyListRejected ==
    (response # "none" /\ files = <<>>) =>
      /\ response = "400"
      /\ pc = "done"
      /\ events = <<>>
      /\ calls = <<>>
      /\ results = <<>>
      /\ csv = csv_before
      /\ ~ENABLED Next

\* The empty request has been answered.
C7_Witness == response = "400" /\ files = <<>>

\* The steps of process_single_file that follow a successful validation.
StepsAfterValidation ==
    {"extract_images", "get_ocr_service", "batch_process", "get_ai_service",
     "extract_structured_data", "generate_summary", "DocumentData",
     "append_to_csv"}

Oversize(i) == Len(files[i].content) > MaxFileSize

\* C8: for a document longer than the configured maximum size, validation
\* fails with "File too large", extract_images is never called, nor is any
\* later stage (OCR, language model, store), and its result is a failure.
C8_OversizeNeverRasterized ==
    Streaming =>
       \A i \in 1..Len(calls) :
          Oversize(i) =>
             /\ StepsOf(i) \cap StepsAfterValidation = {}
             /\ i <= Len(results) =>
                   /\ ~results[i].success
                   /\ "validate_pdf" \in StepsOf(i) =>
                         results[i].error = Some(FileTooLarge)

\* An oversize document went through validation and its failed result has
\* been streamed.
C8_Witness ==
    /\ Streaming
    /\ \E i \in 1..Len(results) :
          /\ Oversize(i)
          /\ "validate_pdf" \in StepsOf(i)
          /\ ~results[i].success

\* The byte string begins with the four bytes %PDF.
BeginsWithPdfMagic(b) ==
    /\ Len(b) >= 4
    /\ b[1] = "%" /\ b[2] = "P" /\ b[3] = "D" /\ b[4] = "F"

\* C9: validate_pdf(bytes, max_size) answers ok exactly when len(bytes) <=
\* max_size and bytes begins with %PDF; otherwise it answers not ok with a
\* non-empty reason; an oversize input is reported as too large whatever its
\* first bytes; an input of exactly max_size bytes beginning with %PDF is
\* accepted.
C9_ValidatePdf ==
    vOut # <<>> =>
       LET ok == vOut[1][1]
           reason == vOut[1][2]
       IN  /\ ok <=> (Len(vIn) <= vMax /\ BeginsWithPdfMagic(vIn))
           /\ ~ok => reason # ""
           /\ Len(vIn) > vMax => (~ok /\ reason = FileTooLarge)
           /\ (Len(vIn) = vMax /\ BeginsWithPdfMagic(vIn)) => ok

\* validate_pdf has accepted an input of exactly max_size bytes.
C9_Witness ==
    /\ vOut # <<>>
    /\ Len(vIn) = vMax
    /\ BeginsWithPdfMagic(vIn)
    /\ vOut[1][1]

\* The text the OCR backend recognised on the pages of a document: the
\* stripped text of each page whose call returned, without the page markers
\* and error placeholders batch_process adds.
RECURSIVE RecognisedPages(_, _, _)
RecognisedPages(service, page_images, idx) ==
    IF idx > Len(page_images) THEN <<>>
    ELSE LET r == extract_handwriting(service, page_images[idx])
         IN  (IF r.ok /\ Strip(r.text) # <<>> THEN <<r.text>> ELSE <<>>)
                \o RecognisedPages(service, page_images, idx + 1)

RecognisedText(service, page_images) ==
    Join(<<"\n", "\n">>, RecognisedPages(service, page_images, 1))

LlmSteps == {"extract_structured_data", "generate_summary"}

\* C10 as stated: whenever the text OCR recognised in a document is shorter
\* than 10 characters after trimming, the document fails with "No text could
\* be extracted from the document", the language model is never called for
\* it and no record is appended to the store.
C10_Original ==
    Streaming =>
       \A i \in 1..Len(calls) :
          ("batch_process" \in StepsOf(i)
             /\ Len(Strip(RecognisedText(ocr_service[1], files[i].pages)))
                   < MinTextLen)
          => /\ StepsOf(i) \cap LlmSteps = {}
             /\ "append_to_csv" \notin StepsOf(i)
             /\ i <= Len(results) =>
                   /\ ~results[i].success
                   /\ results[i].error =
                         Some("No text could be extracted from the document")

(***************************************************************************)
(* batch_process on its own: every list of up to MaxPages page images,     *)
(* under either OCR backend.                                               *)
(***************************************************************************)
MaxPages == 3

OCRServices ==
    {OCRServiceInit(<<"g", "o", "o", "g", "l", "e">>, TRUE),
     OCRServiceInit(<<"g", "o", "o", "g", "l", "e">>, FALSE)}

InitBatch ==
    /\ NoStore /\ NoRequest
    /\ bService \in OCRServices
    /\ bImages \in SeqsUpTo(PageImages, MaxPages)
    /\ bOut = <<>>
    /\ NoValidate /\ NoRetry /\ NoHealth

CallBatchProcess ==
    /\ pc = "probe"
    /\ bOut = <<>>
    /\ bOut' = Some(batch_process(bService, bImages))
    /\ UNCHANGED <<request_state, store_vars, validate_vars, bService,
                   bImages, retry_vars, writer_vars, health_vars>>

SpecBatch == InitBatch /\ [][CallBatchProcess]_vars

(***************************************************************************)
(* Properties of the combined text.                                        *)
(***************************************************************************)
\* The page number whose marker "--- PAGE n ---" stands at position p of the
\* text, 0 when none does.
MarkerAt(text, p, k) ==
    LET here == {n \in 1..k :
                   /\ p + 13 + Len(IntToStr(n)) - 1 <= Len(text)
                   /\ SubSeq(text, p, p + 13 + Len(IntToStr(n)) - 1)
                         = <<"-", "-", "-", " ", "P", "A", "G", "E", " ">>
                              \o IntToStr(n) \o <<" ", "-", "-", "-">>}
    IN  IF here = {} THEN 0 ELSE CHOOSE n \in here : TRUE

MarkerPositions(text, k) == {p \in 1..Len(text) : MarkerAt(text, p, k) # 0}

\* The page numbers of the markers of the text, in the order they occur.
Markers(text, k) ==
    LET P == MarkerPositions(text, k)
    IN  [i \in 1..Cardinality(P) |->
           MarkerAt(text,
                    CHOOSE p \in P : Cardinality({q \in P : q < p}) = i - 1,
                    k)]

\* The section of page n: from its marker up to the blank line before the
\* next marker, or to the end of the text.
SectionOf(text, n, k) ==
    LET start == CHOOSE p \in MarkerPositions(text, k) : MarkerAt(text, p, k) = n
        later == {p \in MarkerPositions(text, k) : p > start}
        stop == IF later = {} THEN Len(text)
                ELSE (CHOOSE p \in later : \A q \in later : p <= q) - 3
    IN  SubSeq(text, start, stop)

PageRaises(p) == ~extract_handwriting(bService, bImages[p]).ok
PageIsBlank(p) ==
    /\ ~PageRaises(p)
    /\ Strip(DetectedText(bImages[p])) = <<>>

\* C11 as stated: the combined text of k page images holds exactly the k
\* markers "--- PAGE n ---", n = 1..k, in ascending order, whatever the OCR
\* call of each page returns.
C11_Original ==
    bOut # <<>> =>
       Markers(bOut[1], Len(bImages)) = [n \in 1..Len(bImages) |-> n]

RECURSIVE NonBlankPages(_)
NonBlankPages(p) ==
    IF p > Len(bImages) THEN <<>>
    ELSE (IF PageIsBlank(p) THEN <<>> ELSE <<p>>) \o NonBlankPages(p + 1)

MaxRetries == 3

\* Only the optional key unit.
JsonOnlyUnit == [unit |-> <<"B">>]

ProbeExtractResponses ==
    ExtractResponses \cup {[kind |-> "json", data |-> JsonOnlyUnit]}

\* Ten characters of padding around four letters, and nothing at all.
PaddedSummary ==
    <<" ", " ", " ", " ", " ", "F", "i", "n", "e", " ", " ", " ", " ", " ">>

ProbeSummaryResponses ==
    SummaryResponses
       \cup {[kind |-> "text", content |-> PaddedSummary],
             [kind |-> "text", content |-> <<>>]}

InitRetry ==
    /\ NoStore /\ NoRequest
    /\ rFn \in {"extract_structured_data", "generate_summary"}
    /\ rMax \in 0..MaxRetries
    /\ rAttempt = 0
    /\ rLog = <<>>
    /\ rOut = <<>>
    /\ NoValidate /\ NoBatch /\ NoHealth

Returned(value) == Some([do |-> "return", value |-> value])
Raised(error) == Some([do |-> "raise", value |-> error])

\* for attempt in range(max_retries): one pass through the body; after the
\* loop, raise Exception("Failed to extract data after maximum retries").
ExtractLoop ==
    /\ pc = "probe" /\ rFn = "extract_structured_data" /\ rOut = <<>>
    /\ IF rAttempt < rMax
       THEN \E resp \in ProbeExtractResponses :
               LET o == ExtractAttempt(rAttempt, resp, rMax)
               IN  /\ rLog' = Append(rLog, [response |-> resp,
                                            sleep |-> o.sleep])
                   /\ rAttempt' = IF o.do = "retry" THEN rAttempt + 1
                                  ELSE rAttempt
                   /\ rOut' = CASE o.do = "return" -> Returned(o.data)
                                [] o.do = "raise" -> Raised(o.error)
                                [] OTHER -> <<>>
       ELSE /\ rOut' = Raised("Failed to extract data after maximum retries")
            /\ UNCHANGED <<rLog, rAttempt>>
    /\ UNCHANGED <<request_state, store_vars, validate_vars, batch_vars, rFn,
                   rMax, writer_vars, health_vars>>

\* The same for generate_summary.
SummaryLoop ==
    /\ pc = "probe" /\ rFn = "generate_summary" /\ rOut = <<>>
    /\ IF rAttempt < rMax
       THEN \E resp \in ProbeSummaryResponses :
               LET o == SummaryAttempt(rAttempt, resp, rMax)
               IN  /\ rLog' = Append(rLog, [response |-> resp,
                                            sleep |-> o.sleep])
                   /\ rAttempt' = IF o.do = "retry" THEN rAttempt + 1
                                  ELSE rAttempt
                   /\ rOut' = CASE o.do = "return" -> Returned(o.summary)
                                [] o.do = "raise" -> Raised(o.error)
                                [] OTHER -> <<>>
       ELSE /\ rOut' =
                  Raised("Failed to generate summary after maximum retries")
            /\ UNCHANGED <<rLog, rAttempt>>
    /\ UNCHANGED <<request_state, store_vars, validate_vars, batch_vars, rFn,
                   rMax, writer_vars, health_vars>>

NextRetry == ExtractLoop \/ SummaryLoop

SpecRetry == InitRetry /\ [][NextRetry]_vars /\ WF_vars(NextRetry)

(***************************************************************************)
(* Properties of the language-model calls.                                 *)
(***************************************************************************)
ExtractCall == rFn = "extract_structured_data"
SummaryCall == rFn = "generate_summary"
HasReturned == rOut # <<>> /\ rOut[1].do = "return"
HasRaised == rOut # <<>> /\ rOut[1].do = "raise"
LastResponse == rLog[Len(rLog)].response

FiveRequiredKeys ==
    {"firstName", "lastName", "docNumber", "facilityName", "address"}
FiveRequiredColumns ==
    {"First name", "Last name", "DOC #", "Facility name", "Address"}
UnknownText == <<"U", "n", "k", "n", "o", "w", "n">>

\* The key is absent from the JSON object, or its value is null or "".
AbsentOrFalsy(json, key) ==
    key \notin DOMAIN json \/ json[key] = None \/ json[key] = <<>>

\* The values the JSON object does give are within the lengths of the record.
GivenValuesFit(json) ==
    /\ AbsentOrFalsy(json, "firstName") \/ Len(json["firstName"]) <= 100
    /\ AbsentOrFalsy(json, "lastName") \/ Len(json["lastName"]) <= 100
    /\ AbsentOrFalsy(json, "docNumber") \/ Len(json["docNumber"]) <= 50

\* C13: whatever JSON object the language model returns, each of the five
\* required keys that is absent or falsy is "Unknown" in what
\* extract_structured_data returns, the other keys keep their values, the
\* object is returned by the very request that got it (a JSON response is
\* never followed by a retry), and the record process_single_file builds
\* from it validates and is stored with none of the five required columns
\* blank: absence alone never makes the document fail.
C13_RequiredDefaultUnknown ==
    ExtractCall =>
      /\ \A i \in 1..Len(rLog) :
            rLog[i].response.kind = "json" => (i = Len(rLog) /\ HasReturned)
      /\ HasReturned =>
            LET json == LastResponse.data
                d == rOut[1].value
                record == DocumentDataArgs(d, Strip(GoodSummary),
                                           <<"t", "e", "x", "t">>)
                stored == append_to_csv(EmptyCsv, <<>>, StorageArgs(record),
                                        FALSE, "ok")
            IN  /\ LastResponse.kind = "json"
                /\ \A k \in FiveRequiredKeys :
                      /\ k \in DOMAIN d
                      /\ d[k] = IF AbsentOrFalsy(json, k) THEN UnknownText
                                ELSE json[k]
                /\ \A k \in DOMAIN json \ FiveRequiredKeys : d[k] = json[k]
                /\ GivenValuesFit(json) =>
                      /\ DocumentDataValid(record)
                      /\ stored.error = ""
                      /\ Len(stored.csv.rows) = 1
                      /\ \A c \in FiveRequiredColumns :
                            stored.csv.rows[1][c] # <<>>

\* The first request was answered by a JSON object without firstName, with an
\* empty lastName and a null facilityName, and the call has returned.
C13_Witness ==
    /\ ExtractCall /\ HasReturned
    /\ Len(rLog) = 1
    /\ DOMAIN LastResponse.data =
          {"middleName", "lastName", "docNumber", "facilityName", "address"}
    /\ LastResponse.data["lastName"] = <<>>
    /\ LastResponse.data["facilityName"] = None
    /\ rOut[1].value["firstName"] = UnknownText

IsFailure(resp) == resp.kind # "json"

\* C16: extract_structured_data always terminates; it issues at most
\* max_retries requests; it returns at the first request answered by a JSON
\* object; after a rate-limit rejection, a malformed response or any other
\* exception it issues another request while attempts remain; it raises when
\* the last allowed attempt fails; nothing is requested after it has
\* returned or raised.
C16_ExtractSafe ==
    ExtractCall =>
      /\ Len(rLog) <= rMax
      /\ \A i \in 1..Len(rLog) - 1 : IsFailure(rLog[i].response)
      /\ HasReturned => ~IsFailure(LastResponse)
      /\ (HasRaised /\ rMax > 0) =>
            (Len(rLog) = rMax /\ IsFailure(LastResponse))
      /\ (rOut = <<>> /\ rMax > 0) => (Len(rLog) < rMax /\ ENABLED ExtractLoop)
      /\ (rLog # <<>> /\ IsFailure(LastResponse) /\ Len(rLog) < rMax)
            => rOut = <<>>
      /\ rOut # <<>> => ~ENABLED NextRetry

C16_ExtractTerminates ==
    /\ []C16_ExtractSafe
    /\ ExtractCall => <>(rOut # <<>>)

\* With max_retries = 3, three requests failed and the call has raised.
C16_Witness ==
    /\ ExtractCall /\ HasRaised
    /\ rMax = 3
    /\ Len(rLog) = 3

TooShort(content) == Len(Strip(content)) < 10

\* C17: generate_summary never returns a string shorter than 10 characters;
\* a summary shorter than 10 characters after trimming is followed by
\* another request while attempts remain; the placeholder is returned only
\* when the answer to the last allowed attempt was itself too short.
C17_SummaryNeverShort ==
    SummaryCall =>
      /\ HasReturned =>
            /\ Len(rOut[1].value) >= 10
            /\ LastResponse.kind = "text"
            /\ IF TooShort(LastResponse.content)
               THEN /\ Len(rLog) = rMax
                    /\ rOut[1].value
                          = <<"L", "e", "t", "t", "e", "r", " ", "c", "o",
                              "n", "t", "e", "n", "t", " ", "c", "o", "u",
                              "l", "d", " ", "n", "o", "t", " ", "b", "e",
                              " ", "s", "u", "m", "m", "a", "r", "i", "z",
                              "e", "d", " ", "e", "f", "f", "e", "c", "t",
                              "i", "v", "e", "l", "y", ".">>
               ELSE rOut[1].value = Strip(LastResponse.content)
      /\ \A i \in 1..Len(rLog) :
            (rLog[i].response.kind = "text"
               /\ TooShort(rLog[i].response.content) /\ i < rMax)
            => (i < Len(rLog) \/ (rOut = <<>> /\ ENABLED SummaryLoop))

\* With max_retries = 3, the first answer was too short, the second was a
\* rate-limit rejection, the third was too short again, and the placeholder
\* has been returned.
C17_Witness ==
    /\ SummaryCall /\ HasReturned
    /\ rMax = 3 /\ Len(rLog) = 3
    /\ rLog[1].response.kind = "text" /\ TooShort(rLog[1].response.content)
    /\ rLog[2].response.kind = "rate_limit"
    /\ TooShort(rLog[3].response.content)
    /\ Len(rOut[1].value) = 51

(***************************************************************************)
(* GET /health on its own, under every configuration of the two backends.  *)
(***************************************************************************)
HealthEnvs ==
    [ocr_provider : {<<"g", "o", "o", "g", "l", "e">>,
                     <<"G", "o", "o", "g", "l", "e">>,
                     <<"t", "e", "s", "s", "e", "r", "a", "c", "t">>},
     google_credentials_json : {<<>>, <<"{", "}">>},
     vision_installed : BOOLEAN,
     tesseract_installed : BOOLEAN,
     openai_api_key : {<<>>, PlaceholderKey, ValidKey, <<" ", " ">>}]

\* ocr_available, ai_available and status as health_check computes them.
HealthFlags(env) ==
    LET ocr_available ==
            IF env.ocr_provider = <<"g", "o", "o", "g", "l", "e">>
            THEN env.vision_installed /\ env.google_credentials_json # <<>>
            ELSE env.tesseract_installed
        ai_available ==
            env.openai_api_key # <<>> /\ env.openai_api_key # PlaceholderKey
    IN  [status |-> IF ocr_available /\ ai_available THEN "healthy"
                    ELSE "degraded",
         ocr_available |-> ocr_available,
         ai_available |-> ai_available]

\* The names routes.py imports from app.models.schemas.
ImportedSchemas == {"HealthResponse", "DocumentData", "FileProcessResult"}

\* return HealthCheckResponse(...): the name is not defined in routes.py, so
\* the statement raises NameError, which main.global_exception_handler
\* answers with 500.
health_check(env) ==
    IF "HealthCheckResponse" \in ImportedSchemas
    THEN [code |-> "200", body |-> HealthFlags(env)]
    ELSE [code |-> "500",
          body |-> [status |-> "Internal Server Error",
                    ocr_available |-> FALSE, ai_available |-> FALSE]]

InitHealth ==
    /\ NoStore /\ NoRequest
    /\ hEnv \in HealthEnvs
    /\ hOut = <<>>
    /\ NoValidate /\ NoBatch /\ NoRetry

HealthCheck ==
    /\ pc = "probe"
    /\ hOut = <<>>
    /\ hOut' = Some(health_check(hEnv))
    /\ UNCHANGED <<request_state, store_vars, validate_vars, batch_vars,
                   retry_vars, writer_vars, hEnv>>

SpecHealth == InitHealth /\ [][HealthCheck]_vars

\* C15 as stated: the health check answers with a response, not an error,
\* whose status is "healthy" exactly when both availability flags are set
\* and "degraded" otherwise.
C15_Original ==
    hOut # <<>> =>
       /\ hOut[1].code = "200"
       /\ hOut[1].body.status \in {"healthy", "degraded"}
       /\ hOut[1].body.status = "healthy"
             <=> (hOut[1].body.ocr_available /\ hOut[1].body.ai_available)

(***************************************************************************)
(* append_to_csv step by step, called at the same time by NumWriters       *)
(* processes (uvicorn workers) on the same files.                          *)
(*                                                                         *)
(* The steps are the ones another process can tell apart: open(csv_path,   *)
(* 'r+'); flock(LOCK_EX), which blocks while another holds the lock;       *)
(* pd.read_csv(csv_path); f.seek(0), f.truncate() and df.to_csv(f), which  *)
(* empties the file on disk and leaves the new contents in the buffer of   *)
(* the handle f (to_csv does not flush a handle it was given; the contents *)
(* of the model are far below the buffer size); flock(LOCK_UN) in the      *)
(* finally clause; the end of the with block, where f is closed and its    *)
(* buffer reaches the file; then _append_to_excel, read and write.         *)
(***************************************************************************)
NumWriters == 2

Writers == 1..NumWriters

\* The record process w appends.
WriterRecord(w) ==
    [firstName |-> <<"W", DigitChar(w)>>, middleName |-> None,
     lastName |-> <<"D", "o", "e">>, dateCreated |-> Today,
     docNumber |-> <<"0", DigitChar(w)>>, facilityName |-> <<"C", "S", "P">>,
     address |-> <<"1", " ", "R", "d">>, unit |-> None,
     aiSummary |-> SummaryPlaceholder, rawText |-> <<"H", "i">>]

\* Records _validate_data refuses.
InvalidRecords ==
    {[k \in DOMAIN WriterRecord(1) \ {"firstName"} |-> WriterRecord(1)[k]],
     [WriterRecord(1) EXCEPT !.lastName = <<>>],
     [WriterRecord(1) EXCEPT !.docNumber = None],
     [WriterRecord(1) EXCEPT !.facilityName = <<>>],
     [k \in DOMAIN WriterRecord(1) \ {"address"} |-> WriterRecord(1)[k]],
     [WriterRecord(1) EXCEPT !.firstName = Rep("x", MaxNameLen + 1)],
     [WriterRecord(1) EXCEPT !.lastName = Rep("x", MaxNameLen + 1)],
     [WriterRecord(1) EXCEPT !.docNumber = Rep("9", MaxDocNumberLen + 1)]}

\* The error append_to_csv raises: "Storage save failed: " + str(e).
ValidationFailed == "Storage save failed: Data validation failed"
NoSuchFile == "Storage save failed: [Errno 2] No such file or directory"
NoColumns == "Storage save failed: No columns to parse from file"
ReadFailed == "Storage save failed: read"
WriteFailed == "Storage save failed: write"
ExcelFailed == "Storage save failed: Excel save failed"

\* An emptied file: no header line, no rows.
TruncatedCsv == [header |-> FALSE, rows |-> <<>>]

IdleWriter ==
    [pc |-> "idle", data |-> <<>>, df |-> <<>>, buf |-> <<>>, error |-> "",
     xdf |-> <<>>]

InitStore ==
    /\ \E present \in BOOLEAN, rows \in {<<>>, <<EarlierRow>>} :
          /\ csv_present = present
          /\ csv = IF present THEN [header |-> TRUE, rows |-> rows]
                   ELSE TruncatedCsv
          /\ excel = IF present THEN rows ELSE <<>>
          /\ present \/ rows = <<>>
    /\ use_excel \in BOOLEAN
    /\ lock = 0
    /\ writers = [w \in Writers |-> IdleWriter]
    /\ NoRequest
    /\ NoValidate /\ NoBatch /\ NoRetry /\ NoHealth

others == <<request_state, validate_vars, batch_vars, retry_vars, health_vars>>

Goto(w, pc_next) == [writers EXCEPT ![w].pc = pc_next]
Fail(w, error_msg, pc_next) ==
    [writers EXCEPT ![w].pc = pc_next, ![w].error = error_msg]

\* append_to_csv(data) is called: _validate_data, then row_data.
WCall(w) ==
    /\ writers[w].pc = "idle"
    /\ \E data \in {WriterRecord(w)} \cup InvalidRecords :
          writers' =
             IF validate_data(data)
             THEN [writers EXCEPT ![w].pc = "open", ![w].data = data]
             ELSE [writers EXCEPT ![w].pc = "done", ![w].data = data,
                                  ![w].error = ValidationFailed]
    /\ UNCHANGED <<store_vars, csv_present, use_excel, lock, others>>

\* with open(self.csv_path, 'r+') as f: FileNotFoundError when the file is
\* not there.
WOpen(w) ==
    /\ writers[w].pc = "open"
    /\ writers' = IF csv_present THEN Goto(w, "lock")
                  ELSE Fail(w, NoSuchFile, "done")
    /\ UNCHANGED <<store_vars, csv_present, use_excel, lock, others>>

\* fcntl.flock(f.fileno(), fcntl.LOCK_EX)
WLock(w) ==
    /\ writers[w].pc = "lock"
    /\ lock = 0
    /\ lock' = w
    /\ writers' = Goto(w, "read")
    /\ UNCHANGED <<store_vars, csv_present, use_excel, others>>

\* A faulty variant of AfterCriticalFailure, for the sensitivity of C25: an
\* exception in the critical section leaves it without the finally clause.
AfterCriticalFailure_NoFinally == "close"

\* Where an exception raised between LOCK_EX and LOCK_UN goes: the finally
\* clause.
AfterCriticalFailure == "unlock"

\* df = pd.read_csv(self.csv_path): EmptyDataError on a file without its
\* header line; any other failure of the read.
WRead(w) ==
    /\ writers[w].pc = "read"
    /\ \/ writers' = IF csv.header
                     THEN [writers EXCEPT ![w].pc = "rewrite",
                                          ![w].df = csv.rows]
                     ELSE Fail(w, NoColumns, AfterCriticalFailure)
       \/ writers' = Fail(w, ReadFailed, AfterCriticalFailure)
    /\ UNCHANGED <<store_vars, csv_present, use_excel, lock, others>>

\* pd.concat; f.seek(0); f.truncate(); df.to_csv(f, index=False)
WRewrite(w) ==
    /\ writers[w].pc = "rewrite"
    /\ csv' = TruncatedCsv
    /\ \/ writers' =
             [writers EXCEPT
                ![w].pc = "unlock",
                ![w].buf =
                   Some([header |-> TRUE,
                         rows |-> Append(RewrittenRows(writers[w].df),
                                         NewRow(RowData(writers[w].data)))])]
       \/ writers' = Fail(w, WriteFailed, AfterCriticalFailure)
    /\ UNCHANGED <<excel, csv_present, use_excel, lock, others>>

\* finally: fcntl.flock(f.fileno(), fcntl.LOCK_UN)
WUnlock(w) ==
    /\ writers[w].pc = "unlock"
    /\ lock' = 0
    /\ writers' = Goto(w, "close")
    /\ UNCHANGED <<store_vars, csv_present, use_excel, others>>

\* A faulty variant of AfterClose, for the sensitivity of C19: the mirror is
\* appended to whether or not the primary append succeeded.
AfterClose_MirrorAlways(error_msg, mirror) ==
    IF mirror THEN "excel_read" ELSE "done"

\* Where append_to_csv goes after the with block.
AfterClose(error_msg, mirror) ==
    IF error_msg = "" /\ mirror THEN "excel_read" ELSE "done"

\* The end of the with block: f.close() writes the buffer to the file.
WClose(w) ==
    /\ writers[w].pc = "close"
    /\ csv' = IF writers[w].buf # <<>> THEN writers[w].buf[1] ELSE csv
    /\ writers' =
          [writers EXCEPT ![w].pc = AfterClose(writers[w].error, use_excel),
                          ![w].buf = <<>>]
    /\ UNCHANGED <<excel, csv_present, use_excel, lock, others>>

\* _append_to_excel: df = pd.read_excel(self.excel_path)
WExcelRead(w) ==
    /\ writers[w].pc = "excel_read"
    /\ writers' = [writers EXCEPT ![w].pc = "excel_write", ![w].xdf = excel]
    /\ UNCHANGED <<store_vars, csv_present, use_excel, lock, others>>

\* _append_to_excel: pd.concat; df.to_excel(self.excel_path), or a failure.
WExcelWrite(w) ==
    /\ writers[w].pc = "excel_write"
    /\ \/ /\ excel' = ExcelAfterAppend(writers[w].xdf,
                                       RowData(writers[w].data))
          /\ writers' = Goto(w, "done")
       \/ /\ excel' = excel
          /\ writers' = Fail(w, ExcelFailed, "done")
    /\ UNCHANGED <<csv, csv_present, use_excel, lock, others>>

NextStore ==
    \E w \in Writers :
       \/ WCall(w) \/ WOpen(w) \/ WLock(w) \/ WRead(w) \/ WRewrite(w)
       \/ WUnlock(w) \/ WClose(w) \/ WExcelRead(w) \/ WExcelWrite(w)

SpecStore == InitStore /\ [][NextStore]_vars

(***************************************************************************)
(* C14.  Concurrent append_to_csv calls on the same CSV file never         *)
(* interleave or corrupt it: after all calls have finished, the number of  *)
(* data rows is the initial number plus the number of appends that         *)
(* returned, no append fails because of the other's activity, and each     *)
(* appended row is intact and equal to the data of its call.               *)
(*                                                                         *)
(* The runs considered are the ones where the file exists, every call has  *)
(* a valid record and no read, write or mirror failure came from the file  *)
(* system: any failure left is caused by the other call.                   *)
(***************************************************************************)
AllDone == \A w \in Writers : writers[w].pc = "done"

FileSystemFault(w) ==
    writers[w].error \in {ReadFailed, WriteFailed, ExcelFailed}

UndisturbedRun ==
    /\ AllDone
    /\ csv_present
    /\ \A w \in Writers :
          writers[w].data = WriterRecord(w) /\ ~FileSystemFault(w)

HasAppended(w) == writers[w].error = ""

RowCountAdds ==
    /\ csv.header
    /\ Len(csv.rows) =
          Len(csv_before.rows) + Cardinality({w \in Writers : HasAppended(w)})

NoAppendFailsByTheOther == \A w \in Writers : HasAppended(w)

AppendedRowsIntact ==
    \A w \in Writers :
       HasAppended(w) =>
          \E i \in 1..Len(csv.rows) :
             /\ i > Len(csv_before.rows)
             /\ csv.rows[i] = NewRow(RowData(writers[w].data))

C14_Original ==
    UndisturbedRun =>
       RowCountAdds /\ NoAppendFailsByTheOther /\ AppendedRowsIntact

(***************************************************************************)
(* C18.  append_to_csv called with a record in which any of firstName,     *)
(* lastName, docNumber, facilityName, address is missing or empty, or      *)
(* firstName or lastName is longer than 100 characters, or docNumber is    *)
(* longer than 50 characters, raises an error before the file is opened or *)
(* locked, and leaves both the CSV file and the spreadsheet mirror         *)
(* unchanged.                                                              *)
(***************************************************************************)
MissingOrEmpty(data, field) ==
    \/ field \notin DOMAIN data
    \/ data[field] = None
    \/ data[field] = <<>>

LongerThan(data, field, limit) ==
    /\ ~MissingOrEmpty(data, field)
    /\ Len(data[field]) > limit

RefusedRecord(data) ==
    \/ \E field \in {"firstName", "lastName", "docNumber", "facilityName",
                     "address"} : MissingOrEmpty(data, field)
    \/ LongerThan(data, "firstName", 100)
    \/ LongerThan(data, "lastName", 100)
    \/ LongerThan(data, "docNumber", 50)

\* A call with such a record has raised the validation error, and never
\* held the file, its lock or contents to write.
C18_RefusedCallDone ==
    \A w \in Writers :
       (writers[w].pc # "idle" /\ RefusedRecord(writers[w].data)) =>
          /\ writers[w].pc = "done"
          /\ writers[w].error = ValidationFailed
          /\ lock # w
          /\ writers[w].df = <<>> /\ writers[w].buf = <<>>
          /\ writers[w].xdf = <<>>

\* The call itself leaves the files and the lock as they were.
C18_RefusedCallStep ==
    \A w \in Writers :
       (/\ writers[w].pc = "idle"
        /\ writers'[w].pc # "idle"
        /\ RefusedRecord(writers'[w].data)) =>
          /\ csv' = csv
          /\ excel' = excel
          /\ csv_present' = csv_present
          /\ lock' = lock

C18_InvalidRecordRefused ==
    []C18_RefusedCallDone /\ [][C18_RefusedCallStep]_vars

\* C18: one call with a record without firstName and one with a last name of
\* 101 characters were both refused, on a file that holds an earlier row.
C18_Witness ==
    /\ csv.rows = <<EarlierRow>>
    /\ excel = <<EarlierRow>>
    /\ \E w1, w2 \in Writers :
          /\ "firstName" \notin DOMAIN writers[w1].data
          /\ writers[w1].pc = "done"
          /\ writers[w1].error = ValidationFailed
          /\ writers[w2].pc = "done"
          /\ writers[w2].error = ValidationFailed
          /\ "lastName" \in DOMAIN writers[w2].data
          /\ Len(writers[w2].data.lastName) = 101

(***************************************************************************)
(* C19.  When a spreadsheet mirror is configured, append_to_csv attempts   *)
(* the mirror append only after the primary CSV append has succeeded; if   *)
(* the mirror write fails, append_to_csv raises an error while the row     *)
(* written to the primary CSV remains committed, and if the primary append *)
(* fails the mirror is never written.                                      *)
(***************************************************************************)
InMirror(w) == writers[w].pc \in {"excel_read", "excel_write"}

PrimaryFailed(w) == writers[w].error \notin {"", ExcelFailed}

LastRowIs(file, data) ==
    /\ file.header
    /\ file.rows # <<>>
    /\ file.rows[Len(file.rows)] = NewRow(RowData(data))

\* No other call has reached the file.
AloneOnFile(w) ==
    \A o \in Writers \ {w} :
       \/ writers[o].pc \in {"idle", "open", "lock"}
       \/ writers[o].error \in {ValidationFailed, NoSuchFile}

C19_MirrorState ==
    \A w \in Writers :
       /\ InMirror(w) => use_excel /\ writers[w].error = ""
       /\ PrimaryFailed(w) => ~InMirror(w) /\ writers[w].xdf = <<>>
       /\ (writers[w].error = ExcelFailed /\ AloneOnFile(w)) =>
             /\ writers[w].pc = "done"
             /\ LastRowIs(csv, writers[w].data)
             /\ Len(csv.rows) = Len(csv_before.rows) + 1

C19_MirrorStep ==
    /\ \A w \in Writers :
          \* the mirror is entered from the end of a primary append that
          \* has put the row in the file
          /\ (~InMirror(w) /\ writers'[w].pc \in {"excel_read",
                                                  "excel_write"}) =>
                /\ use_excel
                /\ writers[w].pc = "close"
                /\ writers[w].error = ""
                /\ LastRowIs(csv', writers[w].data)
          \* the mirror failure is raised and the CSV file stays as it is
          /\ (writers[w].error # ExcelFailed
              /\ writers'[w].error = ExcelFailed) =>
                /\ writers[w].pc = "excel_write"
                /\ writers'[w].pc = "done"
                /\ csv' = csv
                /\ excel' = excel
    \* the mirror is written only by a call whose primary append succeeded
    /\ excel' # excel =>
          /\ csv' = csv
          /\ \E w \in Writers :
                /\ writers[w].pc = "excel_write"
                /\ writers[w].error = ""
                /\ writers'[w].error = ""
                /\ excel' = ExcelAfterAppend(writers[w].xdf,
                                             RowData(writers[w].data))

C19_MirrorAfterPrimary == []C19_MirrorState /\ [][C19_MirrorStep]_vars

\* C19: one call failed in the mirror write and its row is the last of the
\* CSV file; another failed in the primary append and the mirror holds what
\* it held before.
C19_Witness ==
    /\ use_excel
    /\ \E w1, w2 \in Writers :
          /\ writers[w1].pc = "done"
          /\ writers[w1].error = ExcelFailed
          /\ LastRowIs(csv, writers[w1].data)
          /\ writers[w2].pc = "done"
          /\ writers[w2].error = ReadFailed
          /\ excel = csv_before.rows

(***************************************************************************)
(* C20.  If the store file is absent when append is called (including when *)
(* it was removed after the StorageService was constructed), the append    *)
(* creates the file with the fixed header row and then appends the record, *)
(* instead of failing: a call with a valid record that is past its open    *)
(* has a file to work on and has not failed for the want of one.           *)
(***************************************************************************)
C20_Original ==
    \A w \in Writers :
       (/\ writers[w].pc \notin {"idle", "open"}
        /\ validate_data(writers[w].data)) =>
          /\ csv_present
          /\ writers[w].error # NoSuchFile

(***************************************************************************)
(* C21.  The store is append-only: after any append_to_csv call,           *)
(* successful or failing at any step, every row that was in the CSV file   *)
(* before the call is still present, with unchanged field values and       *)
(* unchanged position; a call only ever adds one row at the end.           *)
(*                                                                         *)
(* The rows before the call are the ones it read under the lock (df); the  *)
(* file after the call is the file when the call's handle has been closed. *)
(***************************************************************************)
IsPrefixOf(rows, longer) ==
    /\ Len(rows) <= Len(longer)
    /\ \A i \in 1..Len(rows) : longer[i] = rows[i]

RowsKept(w) == IsPrefixOf(writers[w].df, csv'.rows)

OneRowAdded(w) ==
    writers[w].error = "" =>
       /\ Len(csv'.rows) = Len(writers[w].df) + 1
       /\ LastRowIs(csv', writers[w].data)

ClosesFile(w) == writers[w].pc = "close" /\ writers'[w].pc # "close"

C21_Original ==
    [][\A w \in Writers : ClosesFile(w) => RowsKept(w) /\ OneRowAdded(w)]_vars

(***************************************************************************)
(* C22.  When the language-model backend is not configured (API key empty  *)
(* or 'placeholder-key') or the OCR backend cannot be initialised, the     *)
(* failure at first use is surfaced to the caller as a 503-equivalent      *)
(* response, rather than as an ordinary per-document failure inside a      *)
(* successful stream.                                                      *)
(***************************************************************************)
BackendNotConfigured == AiKeyError(settings.openai_api_key) # ""

FirstUseReached ==
    \E i \in 1..Len(calls) : "get_ai_service" \in StepsOf(i)

InitFailureInResult(r) ==
    ~r.success /\ r.error = Some(AiKeyError(settings.openai_api_key))

C22_Original ==
    (BackendNotConfigured /\ FirstUseReached) =>
       /\ response = "503"
       /\ file_result = <<>> \/ ~InitFailureInResult(file_result[1])
       /\ \A i \in 1..Len(results) : ~InitFailureInResult(results[i])

(***************************************************************************)
(* C23.  For every document, the stages executed form a prefix of the      *)
(* fixed sequence filename check, read, validate, rasterize, OCR,          *)
(* content-length check, field extraction, summarization, record           *)
(* construction, store append: each stage is entered at most once per      *)
(* document, a stage is entered only if every earlier stage succeeded, the *)
(* first failing stage moves the document to 'failed' carrying that        *)
(* stage's error message, and success=true is reported only after the      *)
(* store append has returned successfully.                                 *)
(*                                                                         *)
(* The sequence below is the claim's, with the two places where a service  *)
(* is obtained before its first call; OCR and the content-length check     *)
(* that follows it are the step batch_process.                             *)
(***************************************************************************)
StageSequence ==
    <<"check_filename", "read", "validate_pdf", "extract_images",
      "get_ocr_service", "batch_process", "get_ai_service",
      "extract_structured_data", "generate_summary", "DocumentData",
      "append_to_csv">>

\* The messages with which each stage fails.
StageErrors(step) ==
    CASE step = "check_filename" -> {"Only PDF files are allowed"}
      [] step = "validate_pdf" ->
           {"File too large", "Invalid PDF file format"}
      [] step = "extract_images" ->
           {"PDF processing failed: Unable to get page count"}
      [] step = "batch_process" ->
           {"No text could be extracted from the document"}
      [] step = "get_ai_service" ->
           {"AI service initialization failed: OpenAI API key not configured",
            "AI service initialization failed: OpenAI API key is empty"}
      [] step \in {"extract_structured_data", "generate_summary"} ->
           {RateLimitMessage, BadJsonMessage, ApiErrorMessage}
      [] step = "DocumentData" -> {"1 validation error for DocumentData"}
      [] step = "append_to_csv" ->
           {"Storage save failed: Data validation failed",
            "Storage save failed: csv",
            "Storage save failed: Excel save failed"}
      [] OTHER -> {}

\* The result of document i, once process_single_file has returned it.
HasResult(i) ==
    i <= Len(results) \/ (i = index /\ file_result # <<>>)
ResultOf(i) == IF i <= Len(results) THEN results[i] ELSE file_result[1]

C23_StagesState ==
    \A i \in 1..Len(calls) :
       /\ IsPrefixOf(calls[i], StageSequence)
       /\ HasResult(i) =>
             IF ResultOf(i).success
             THEN calls[i] = StageSequence
             ELSE /\ calls[i] # <<>>
                  /\ ResultOf(i).error # <<>>
                  /\ ResultOf(i).error[1]
                        \in StageErrors(calls[i][Len(calls[i])])

C23_StagesStep ==
    /\ \A i \in 1..Len(calls) :
          \* no stage is entered once the document has its result
          /\ HasResult(i) => calls'[i] = calls[i]
          \* a stage that failed is the last one
          /\ (~HasResult(i) /\ HasResult(i)' /\ ~ResultOf(i)'.success) =>
                Len(calls'[i]) <= Len(calls[i]) + 1
    \* success is the outcome of the store append that has put the row in
    \* the file
    /\ (file_result = <<>> /\ file_result' # <<>>
        /\ file_result'[1].success) =>
          /\ stage = "append_to_csv"
          /\ LastRowIs(csv', StorageArgs(document_data[1]))
          /\ Len(csv'.rows) = Len(csv.rows) + 1

C23_StagePrefix == []C23_StagesState /\ [][C23_StagesStep]_vars

\* C23: a batch of two documents, one that went through every stage and
\* succeeded, one that failed in the field extraction.
C23_Witness ==
    /\ Len(results) = 2
    /\ \E i, j \in 1..2 :
          /\ results[i].success
          /\ calls[i] = StageSequence
          /\ ~results[j].success
          /\ calls[j][Len(calls[j])] = "extract_structured_data"
          /\ results[j].error = Some(BadJsonMessage)

(***************************************************************************)
(* C24.  In append_to_csv every access to the CSV file's contents happens  *)
(* while the exclusive lock is held: the read, the truncation and the      *)
(* arrival in the file of all bytes of the rewritten contents occur after  *)
(* LOCK_EX is acquired and before LOCK_UN; no byte is written to the file  *)
(* after the lock has been released, so no other writer can observe a      *)
(* truncated or partially rewritten file.                                  *)
(***************************************************************************)
HoldsLock(w) == lock = w /\ lock' = w

\* The call of w reads the file in this step.
ReadsFile(w) == writers[w].pc = "read" /\ writers'[w].pc # "read"

\* The call of w changes the file in this step.
ChangesFile(w) == writers'[w] # writers[w] /\ csv' # csv

\* What a call reads is a file with its header line, unless a call failed
\* in the middle of its rewrite.
ReadsWholeFile(w) ==
    (ReadsFile(w) /\ \A o \in Writers : writers[o].error # WriteFailed) =>
       csv.header

C24_Original ==
    [][\A w \in Writers :
          /\ ReadsFile(w) => HoldsLock(w)
          /\ ChangesFile(w) => HoldsLock(w)
          /\ csv_present => ReadsWholeFile(w)]_vars

(***************************************************************************)
(* The processes are scheduled by the operating system, each on its own:   *)
(* a call that can take a step takes it in the end, and flock(LOCK_EX)     *)
(* returns to a waiting call once the lock is free.                        *)
(***************************************************************************)
WriterStep(w) ==
    \/ WCall(w) \/ WOpen(w) \/ WLock(w) \/ WRead(w) \/ WRewrite(w)
    \/ WUnlock(w) \/ WClose(w) \/ WExcelRead(w) \/ WExcelWrite(w)

SpecStoreFair ==
    InitStore /\ [][NextStore]_vars /\ \A w \in Writers : WF_vars(WriterStep(w))

(***************************************************************************)
(* C25.  The store lock is never leaked and never deadlocks: whenever      *)
(* append_to_csv returns or raises, including when the read or the rewrite *)
(* inside the critical section fails, the caller no longer holds the lock; *)
(* at most one writer holds it at any time; and every append blocked on    *)
(* the lock eventually acquires it once the holder finishes.               *)
(***************************************************************************)
InCriticalSection(w) == writers[w].pc \in {"read", "rewrite", "unlock"}

C25_LockState ==
    /\ \A w \in Writers :
          /\ InCriticalSection(w) <=> lock = w
          /\ writers[w].pc \in {"close", "excel_read", "excel_write", "done"}
                => lock # w
    /\ Cardinality({w \in Writers : InCriticalSection(w)}) <= 1

\* A call leaves flock(LOCK_EX) only as the holder of the lock.
C25_LockStep ==
    \A w \in Writers :
       (writers[w].pc = "lock" /\ writers'[w].pc # "lock") =>
          lock = 0 /\ lock' = w

\* No call stays blocked: in the end every call has returned or raised and
\* the lock is free.
C25_AllFinish == <>[](AllDone /\ lock = 0)

\* C25: the lock is held only inside the critical section, by one call at a
\* time, is taken only when free, and every call ends with the lock free.
C25_LockNeverLeaked ==
    []C25_LockState /\ [][C25_LockStep]_vars /\ C25_AllFinish

\* C25: a call whose read failed under the lock has raised, the lock is
\* free, and the other call, which waited for it, has appended its row.
C25_Witness ==
    \E w1, w2 \in Writers :
       /\ writers[w1].pc = "done"
       /\ writers[w1].error = ReadFailed
       /\ writers[w2].pc = "done"
       /\ writers[w2].error = ""
       /\ LastRowIs(csv, writers[w2].data)
       /\ lock = 0

(***************************************************************************)
(* C26.  Backoff schedule of extract_structured_data and                   *)
(* generate_summary: after a rate-limit rejection on 0-based attempt k     *)
(* with k < max_retries-1 the wait before the next request is 2^k seconds  *)
(* (1, then 2 for max_retries=3); after a malformed-JSON response or any   *)
(* other exception with attempts remaining the wait is 1 second; no wait   *)
(* is performed after the final failed attempt, and a too-short summary is *)
(* retried with no wait.                                                   *)
(*                                                                         *)
(* rLog[i] is the request of the 0-based attempt i - 1, with the wait that *)
(* followed it.                                                            *)
(***************************************************************************)
ExpectedWait(k, resp) ==
    IF k >= rMax - 1 THEN 0
    ELSE CASE resp.kind = "rate_limit" -> 2^k
           [] resp.kind \in {"bad_json", "api_error"} -> 1
           [] OTHER -> 0

C26_BackoffSchedule ==
    \A i \in 1..Len(rLog) :
       /\ rLog[i].sleep = ExpectedWait(i - 1, rLog[i].response)
       \* a request is followed by another one only after a failure or a
       \* summary that is too short
       /\ i < Len(rLog) =>
             \/ rLog[i].response.kind \in {"rate_limit", "bad_json",
                                           "api_error"}
             \/ /\ SummaryCall
                /\ rLog[i].response.kind = "text"
                /\ TooShort(rLog[i].response.content)

\* C26: with max_retries = 3, three rate-limit rejections: waits of 1 and 2
\* seconds, none after the last.
C26_Witness ==
    /\ rMax = 3
    /\ Len(rLog) = 3
    /\ \A i \in 1..3 : rLog[i].response.kind = "rate_limit"
    /\ rLog[1].sleep = 1 /\ rLog[2].sleep = 2 /\ rLog[3].sleep = 0
    /\ HasRaised

(***************************************************************************)
(* The language-model calls as process_single_file makes them, in a        *)
(* deployment whose settings.openai_max_retries is c:                      *)
(*    extracted_data = ai_service.extract_structured_data(raw_text)        *)
(*    summary = ai_service.generate_summary(raw_text)                      *)
(* No max_retries argument is passed: the parameter takes its default.     *)
(***************************************************************************)
ConfiguredRetries == 1..(MaxRetries + 1)

\* The value the parameter max_retries has in the call.
PassedMaxRetries(fn, configured) ==
    IF fn = "extract_structured_data" THEN ExtractMaxRetries
    ELSE SummaryMaxRetries

InitConfigured ==
    /\ NoStore
    /\ \E c \in ConfiguredRetries :
          NoRequestWith([openai_max_retries |-> c])
    /\ rFn \in {"extract_structured_data", "generate_summary"}
    /\ rMax = PassedMaxRetries(rFn, settings.openai_max_retries)
    /\ rAttempt = 0
    /\ rLog = <<>>
    /\ rOut = <<>>
    /\ NoValidate /\ NoBatch /\ NoHealth

SpecConfigured == InitConfigured /\ [][NextRetry]_vars

(***************************************************************************)
(* C27.  The retry bound honoured by field extraction and summarization    *)
(* during document processing is the configured value: for every value c   *)
(* of the setting openai_max_retries, each call made by                    *)
(* process_single_file issues at most c language-model requests and gives  *)
(* up after c failed attempts.                                             *)
(***************************************************************************)
AllAttemptsFailed ==
    \A i \in 1..Len(rLog) :
       rLog[i].response.kind \in {"rate_limit", "bad_json", "api_error"}

C27_Original ==
    /\ Len(rLog) <= settings.openai_max_retries
    /\ (AllAttemptsFailed /\ Len(rLog) = settings.openai_max_retries) =>
          HasRaised

(***************************************************************************)
(* The OCR service over the life of the process: get_ocr_service builds    *)
(* the OCRService at its first call and returns the same object at every   *)
(* later one; extract_handwriting is called on page after page.  Whether   *)
(* the cloud client can be built is a fact of the environment, which may   *)
(* change while the process runs.  bOut is here the list of the outcomes   *)
(* of the extract_handwriting calls made so far.                           *)
(***************************************************************************)
OcrProviders ==
    {<<"G", "o", "o", "g", "l", "e">>,
     <<"t", "e", "s", "s", "e", "r", "a", "c", "t">>}

OcrPages == {PageLong, PageBad, PageCloudDown}

InitOcr ==
    /\ NoStore
    /\ \E p \in OcrProviders, ok \in BOOLEAN :
          NoRequestWith([ocr_provider |-> p, google_ok |-> ok])
    /\ bService = <<>>
    /\ bImages \in SeqsUpTo(OcrPages, MaxPages)
    /\ bOut = <<>>
    /\ NoValidate /\ NoRetry /\ NoHealth

ocr_others ==
    <<ai_service, store_vars, request_vars, stream_vars, pc, stage,
      local_vars, file_result, calls, validate_vars, bService, bImages,
      retry_vars, writer_vars, health_vars>>

\* get_ocr_service()
OcrGetService ==
    /\ pc = "probe"
    /\ ocr_service' =
          IF IsNone(ocr_service)
          THEN Some(OCRServiceInit(settings.ocr_provider, settings.google_ok))
          ELSE ocr_service
    /\ ocr_service' # ocr_service
    /\ UNCHANGED <<settings, bOut, ocr_others>>

\* ocr_service.extract_handwriting(image) on the next page.
OcrExtract ==
    /\ pc = "probe"
    /\ ~IsNone(ocr_service)
    /\ Len(bOut) < Len(bImages)
    /\ bOut' = Append(bOut, extract_handwriting(ocr_service[1],
                                                bImages[Len(bOut) + 1]))
    /\ UNCHANGED <<settings, ocr_service, ocr_others>>

\* The cloud backend becomes reachable, or stops being so.
OcrEnvironment ==
    /\ pc = "probe"
    /\ settings' = [settings EXCEPT !.google_ok = ~settings.google_ok]
    /\ UNCHANGED <<ocr_service, bOut, ocr_others>>

NextOcr == OcrGetService \/ OcrExtract \/ OcrEnvironment

SpecOcr == InitOcr /\ [][NextOcr]_vars

(***************************************************************************)
(* C28.  The OCR backend is selected once, when the OCRService is          *)
(* constructed: if the cloud backend cannot be initialised the provider    *)
(* becomes the local engine and stays so; after construction the provider  *)
(* never changes, every extract_handwriting call of the process is routed  *)
(* to that same single backend, and a failing cloud call raises for that   *)
(* page instead of falling back to the local engine.                       *)
(***************************************************************************)
CloudAsked == Lower(settings.ocr_provider) = <<"g", "o", "o", "g", "l", "e">>

\* What the one backend of the service does with a page.
OutcomeOf(the_provider, image) ==
    IF the_provider = "google"
    THEN IF image \in {PageBad, PageCloudDown}
         THEN [ok |-> FALSE, text |-> <<>>]
         ELSE [ok |-> TRUE, text |-> Strip(DetectedText(image))]
    ELSE IF image = PageBad
         THEN [ok |-> FALSE, text |-> <<>>]
         ELSE [ok |-> TRUE, text |-> Strip(DetectedText(image))]

C28_Routed ==
    /\ bOut # <<>> => ~IsNone(ocr_service)
    /\ ~IsNone(ocr_service) =>
          /\ ocr_service[1].provider \in {"google", "tesseract"}
          /\ ocr_service[1].provider = "google" => CloudAsked
          /\ \A i \in 1..Len(bOut) :
                bOut[i] = OutcomeOf(ocr_service[1].provider, bImages[i])

C28_SelectedOnce ==
    /\ (IsNone(ocr_service) /\ ~IsNone(ocr_service')) =>
          ocr_service'[1].provider =
             IF CloudAsked /\ settings.google_ok THEN "google"
             ELSE "tesseract"
    /\ ~IsNone(ocr_service) => ocr_service' = ocr_service

C28_OneBackend == []C28_Routed /\ [][C28_SelectedOnce]_vars

\* C28: the service was built with the cloud backend; the cloud has since
\* become unreachable; a page that only the local engine could read was
\* refused, after a page that was read.
C28_Witness ==
    /\ ~IsNone(ocr_service)
    /\ ocr_service[1].provider = "google"
    /\ ~settings.google_ok
    /\ Len(bOut) = 2
    /\ bImages[1] = PageLong /\ bOut[1].ok
    /\ bImages[2] = PageCloudDown /\ ~bOut[2].ok

(***************************************************************************)
(* C29.  For every document of every batch, a row for that document is     *)
(* present in the primary CSV store after its processing if and only if   *)
(* its FileProcessResult has success=true; equivalently, the number of     *)
(* rows a batch adds to the CSV equals the 'processed' count of its        *)
(* summary, and a document reported as failed never leaves a row behind.   *)
(*                                                                         *)
(* Stated for the batches that leave the CSV file readable (its header     *)
(* line in place), so that a rewrite interrupted by the file system is not *)
(* what the statement fails on.                                            *)
(***************************************************************************)
BatchOver == pc = "done" /\ response = "stream"

RowsAdded == Len(csv.rows) - Len(csv_before.rows)

C29_Original ==
    (BatchOver /\ csv.header) =>
       RowsAdded = events[Len(events)].summary.processed

(***************************************************************************)
(* C30.  Every FileProcessResult produced by process_single_file           *)
(* satisfies: success=true exactly when data is non-null exactly when      *)
(* error is null; a failed result never carries a DocumentRecord and a     *)
(* successful result never carries an error message.                       *)
(***************************************************************************)
WellFormedResult(r) ==
    /\ r.success <=> r.data # <<>>
    /\ r.data # <<>> <=> r.error = <<>>

ProducedResults ==
    {results[i] : i \in 1..Len(results)}
       \cup (IF file_result = <<>> THEN {} ELSE {file_result[1]})
       \cup {events[i].result : i \in {j \in 1..Len(events) :
                                          events[j].type = "result"}}

C30_ResultWellFormed == \A r \in ProducedResults : WellFormedResult(r)

\* C30: a batch with a successful result, which carries the record and no
\* error, and a failed one, which carries the error and no record.
C30_Witness ==
    /\ Len(results) = 2
    /\ \E i, j \in 1..2 :
          /\ results[i].success
          /\ results[i].data # <<>>
          /\ DocumentDataValid(results[i].data[1])
          /\ results[i].error = <<>>
          /\ ~results[j].success
          /\ results[j].data = <<>>
          /\ results[j].error = Some("File too large")

(***************************************************************************)
(* One document of any pages: the request, accepted by                     *)
(* process_documents_stream, of a single well-formed PDF whose pages are   *)
(* any list of up to MaxPages page images, in each deployment.             *)
(***************************************************************************)
PagedUploads ==
    {Upload(NameLower, PdfOfSize(MaxFileSize), FALSE, pages) :
        pages \in SeqsUpTo(PageImages, MaxPages)}

InitContent ==
    /\ \E d \in Deployments :
          /\ settings = [k \in SettingNames |-> d[k]]
          /\ csv = d.csv
          /\ excel = d.excel
    /\ ocr_service = <<>>
    /\ ai_service = <<>>
    /\ \E f \in PagedUploads : files = <<f>>
    /\ response = "stream"
    /\ pc = "progress"
    /\ index = 1
    /\ results = <<>>
    /\ successful = 0
    /\ failed = 0
    /\ events = <<>>
    /\ stage = "none"
    /\ NoLocals
    /\ file_result = <<>>
    /\ calls = <<>>
    /\ csv_before = csv
    /\ csv_present = TRUE
    /\ use_excel = settings.excel_path
    /\ NoValidate /\ NoBatch /\ NoRetry /\ NoWriters /\ NoHealth

NextContent ==
    \/ YieldProgress
    \/ CheckFilename
    \/ ReadFile
    \/ ValidatePdf
    \/ ExtractImages
    \/ GetOcrService
    \/ BatchProcess
    \/ GetAiService
    \/ ExtractRequest
    \/ SummaryRequest
    \/ ConstructDocumentData
    \/ AppendToCsv
    \/ YieldResult
    \/ YieldComplete

SpecContent == InitContent /\ [][NextContent]_vars

(***************************************************************************)
(* C31.  The content-insufficiency check of process_single_file is applied *)
(* to the combined text including page markers, so it fails exactly when   *)
(* the combined text is empty, i.e. when no page contributed a section     *)
(* (zero pages, or every page's OCR returned blank text without raising);  *)
(* whenever at least one page contributed a section, whether recognised    *)
(* text or the error placeholder of a page whose OCR raised, the check     *)
(* passes and the language model is called, even if fewer than 10          *)
(* characters of text were recognised.                                     *)
(***************************************************************************)
\* Page p of the document contributes a section: its OCR call raised, or
\* returned text that is not blank.
Contributes(p) ==
    LET r == extract_handwriting(ocr_service[1], files[1].pages[p])
    IN  ~r.ok \/ Strip(r.text) # <<>>

SomeSection == \E p \in 1..Len(files[1].pages) : Contributes(p)

ContentError == Some("No text could be extracted from the document")

\* The check has been applied to the document.
Checked == calls # <<>> /\ "batch_process" \in StepsOf(1)

FailedTheCheck ==
    /\ HasResult(1)
    /\ ~ResultOf(1).success
    /\ ResultOf(1).error = ContentError

\* The step that applies the check: the combined text is empty exactly when
\* no page contributed a section, and exactly then the check fails.
C31_CheckStep ==
    (pc = "process" /\ stage = "batch_process" /\ stage' # "batch_process") =>
       /\ raw_text' = <<>> <=> ~SomeSection
       /\ ~SomeSection <=> (file_result' # <<>>
                            /\ file_result'[1].error = ContentError)
       /\ SomeSection <=> stage' = "get_ai_service"

LlmCalled == calls # <<>> /\ "extract_structured_data" \in StepsOf(1)

C31_CheckState ==
    /\ Checked => (FailedTheCheck <=> ~SomeSection)
    /\ (Checked /\ SomeSection) =>
          /\ "get_ai_service" \in StepsOf(1) \/ stage = "get_ai_service"
          /\ HasResult(1) =>
                IF AiKeyError(settings.openai_api_key) = ""
                THEN LlmCalled
                ELSE /\ ~LlmCalled
                     /\ HasResult(1)
                     /\ ResultOf(1).error =
                           Some(AiKeyError(settings.openai_api_key))

InitProgress ==
    /\ NoStore
    /\ \E n \in 1..MaxBatch :
          files = [i \in 1..n |->
                      Upload(NameLower, PdfOfSize(MaxFileSize), FALSE, <<>>)]
    /\ settings = [k \in SettingNames |-> <<>>]
    /\ ocr_service = <<>>
    /\ ai_service = <<>>
    /\ response = "stream"
    /\ pc = "probe"
    /\ index = 1
    /\ results = <<>>
    /\ successful = 0
    /\ failed = 0
    /\ events = <<>>
    /\ stage = "none"
    /\ NoLocals
    /\ file_result = <<>>
    /\ calls = <<>>
    /\ csv_before = csv
    /\ NoValidate /\ NoBatch /\ NoRetry /\ NoHealth

\* for index, file in enumerate(files, start=1): yield the progress event.
NextProgressEvent ==
    /\ pc = "probe"
    /\ index <= Len(files)
    /\ events' = Append(events, ProgressEvent(index, Len(files), files[index]))
    /\ index' = index + 1
    /\ UNCHANGED <<service_vars, store_vars, request_vars, results,
                   successful, failed, pc, stage, local_vars, file_result,
                   calls, probe_vars>>

SpecProgress == InitProgress /\ [][NextProgressEvent]_vars

(***************************************************************************)
(* C32.  For a batch of n files, the progress event of file i (1-based)    *)
(* has current=i, total=n and percentage = floor(100*(i-1)/n); hence the   *)
(* first progress event has percentage 0, percentages are non-decreasing   *)
(* along the stream, and every percentage lies in 0..99.                   *)
(***************************************************************************)
ExactPercentage(i, n) == (100 * (i - 1)) \div n

C32_Counts ==
    \A i \in 1..Len(events) :
       events[i].current = i /\ events[i].total = Len(files)

C32_Floor ==
    \A i \in 1..Len(events) :
       events[i].percentage = ExactPercentage(i, Len(files))

C32_Range ==
    /\ events # <<>> => events[1].percentage = 0
    /\ \A i \in 1..Len(events) : events[i].percentage \in 0..99
    /\ \A i \in 1..(Len(events) - 1) :
          events[i].percentage <= events[i + 1].percentage

C32_Original == C32_Counts /\ C32_Floor /\ C32_Range


(***************************************************************************)
(* C33.  When a spreadsheet mirror is configured and no mirror write       *)
(* raises, then after any interleaving of concurrent successful            *)
(* append_to_csv calls the mirror contains exactly the same set of         *)
(* appended rows as the primary CSV: no mirror row is lost when two        *)
(* requests append at the same time.                                       *)
(***************************************************************************)
NoMirrorWriteRaised == \A w \in Writers : writers[w].error # ExcelFailed

\* The rows a file has gained since the calls began.
AppendedRows(rows) ==
    {rows[i] : i \in (Len(csv_before.rows) + 1)..Len(rows)}

NoMirrorRowLost ==
    \A w \in Writers :
       HasAppended(w) =>
          NewRow(RowData(writers[w].data)) \in AppendedRows(excel)

SameAppendedRows ==
    /\ Len(excel) = Len(csv.rows)
    /\ \A w \in Writers :
          NewRow(RowData(writers[w].data)) \in AppendedRows(excel)
             <=> NewRow(RowData(writers[w].data)) \in AppendedRows(csv.rows)

C33_Original ==
    (AllDone /\ use_excel /\ NoMirrorWriteRaised) =>
       NoMirrorRowLost /\ SameAppendedRows
=============================================================================
